---- MODULE Spec2Model ----
(***************************************************************************)
(* Admission-and-cache arbitration of prompt-wrapper: the fixed-window     *)
(* RateLimiter (rate_limiter.rs), the sticky preset selector (preset.rs),  *)
(* the storage backends (storage.rs) and the create_saying handler         *)
(* (handlers.rs).  Time is a discrete clock `now`; every Utc::now() in the *)
(* code reads it.                                                          *)
(***************************************************************************)
EXTENDS Integers, Sequences, FiniteSets, TLC

\* ------------------------------------------------------------------ bounds
\* last instant of the clock
MaxTime == 2
\* RATE_LIMIT_MAX_REQUESTS ranges over 0..MaxRequests
MaxRequests == 2
\* RATE_LIMIT_WINDOW_SECONDS ranges over 0..MaxWindow and over LongWindows
MaxWindow == 1
\* save_saying calls in a run of the storage specification
MaxSayings == 2
\* create_saying requests in a run of the handler specification
MaxAdmits == 2
\* sayings saved when the two backends are compared: a cached one and two
\* generated ones
MaxBoth == 3
\* a counter that wrapped is followed for MaxWrapped more grants
MaxWrapped == 2

\* ------------------------------------------------------------- value sets
\* user ids are arbitrary query strings; one of them starts with "__"
Users == {"u1", "__u2"}
\* config::TEST_USER_ID, imported at handlers.rs line 15 and main.rs line 23:
\* the id reserved for the test user
TestUserId == "test_user"
\* every user id a request can carry
UserIds == Users \cup {TestUserId}
Threads == {"t1", "t2"}
\* Option<T>: None is the empty tuple, Some(x) the one-element tuple; a key
\* that is missing from a map reads as None
None == <<>>
Some(x) == <<x>>
Unwrap(o) == o[1]

Min(a, b) == IF a <= b THEN a ELSE b

VARIABLES
  now,         \* the clock read by Utc::now()
  config,      \* RateLimitConfig: max_requests, window_seconds; and whether the
               \* build checks arithmetic for overflow (overflow_checks)
  store,       \* RateLimiter.store: user_id -> RateLimitInfo (None: no entry)
  store_lock,  \* holder of the Mutex around RateLimiter.store, or None
  pc,          \* per thread: position inside the RateLimiter call it runs
  frame,       \* per thread: the call's arguments, locals and result
  quota,       \* per user: check calls and grants counted in the live window
  presets,     \* Presets.presets: the catalog, in file order
  selections,  \* Presets.selections: user_id -> PresetSelection (None: no entry)
  sel_call,    \* the last get_or_select_preset call: arguments and result
  sayings,     \* MemoryStorage.sayings: user_id -> Vec<Saying>
  global_cache,\* MemoryStorage.global_cache: CacheKey -> Saying
  db,          \* SledStorage.db: the default tree and the "global_cache" tree
  log,         \* every save_saying call so far, in order: <<user_id, saying>>
  st_call,     \* the last Storage call: arguments and what each backend returned
  storage,     \* Storage: the StorageConfig it was built from and the backend in
               \* Storage.inner
  held,        \* cached_result of a create_saying request that found a saying
               \* and has not saved it yet (handlers.rs lines 309-343), or None
  mem_locks,   \* holders of the Mutexes around MemoryStorage.sayings and
               \* MemoryStorage.global_cache, or None
  mem_call,    \* per thread: the MemoryStorage call it runs, its position in
               \* it and its result
  sled_call,   \* per thread: the SledStorage::save_saying call it runs, its
               \* position and locals, and the calls that returned Ok to it
  req,         \* the create_saying request in progress: its position and locals
  persona,     \* per user: window and preset of the last granted request that
               \* supplied neither prompt nor preset
  admits,      \* create_saying requests received so far
  task,        \* per thread: the create_saying request it serves next to the
               \* other threads' requests: its position and locals
  granted      \* every check of such a request that returned true, in order:
               \* the user, the instant and the reset_at of the window charged

rlVars == <<store, store_lock, pc, frame, quota>>
psVars == <<presets, selections, sel_call>>
mlVars == <<mem_locks, mem_call, sled_call>>
stVars == <<sayings, global_cache, db, log, st_call, storage, held, mlVars>>
caVars == <<task, granted>>
hVars == <<req, persona, admits, caVars>>
vars == <<now, config, rlVars, psVars, stVars, hVars>>

\* what an action of one component leaves alone in the others
notRl == <<psVars, stVars, hVars>>
notPs == <<rlVars, stVars, hVars>>
notSt == <<rlVars, psVars, hVars>>

\* ============================================================ RateLimiter

\* remaining_requests is a u32 (models.rs line 78).  A u32 is held as its two
\* 16-bit halves <<high, low>>, the number high * 2^16 + low: the values from
\* 2^31 up are beyond the integers of the model checker
Half == 2^16

\* the u32 of a number below 2^31
U32(n) == <<n \div Half, n % Half>>

\* u32::MAX = 2^32 - 1
U32Max == <<Half - 1, Half - 1>>

\* a < b and a <= b on u32
U32Less(a, b) == a[1] < b[1] \/ (a[1] = b[1] /\ a[2] < b[2])
U32AtMost(a, b) == a = b \/ U32Less(a, b)

\* a - b for a u32 a and a number b below 2^16, when the build does not check
\* for overflow (the release profile): the result wraps around 2^32
WrappingSub(a, b) ==
  IF a[2] >= b THEN <<a[1], a[2] - b>>
  ELSE IF a[1] > 0 THEN <<a[1] - 1, a[2] - b + Half>>
  ELSE <<Half - 1, a[2] - b + Half>>

\* a - b goes below zero
SubOverflows(a, b) == a[1] = 0 /\ a[2] < b

\* the build checks arithmetic for overflow (the dev profile): a subtraction
\* that overflows panics.  The dev profile sets cfg(debug_assertions) as well
OverflowChecks == config.overflow_checks

\* models::RateLimitInfo; remaining is a u32
RateLimitInfo(u, remaining, reset_at) ==
  [user_id |-> u, remaining_requests |-> remaining, reset_at |-> reset_at]

\* window_seconds is a u64 (config.rs line 28), held as its four 16-bit limbs,
\* the most significant first
U64(n) == <<0, 0, n \div Half, n % Half>>

\* a < b on four limbs
U64Less(a, b) == \E i \in 1..4 : a[i] < b[i] /\ \A j \in 1..(i - 1) : a[j] = b[j]

\* the number the four limbs stand for
U64Value(w) == ((w[1] * Half + w[2]) * Half + w[3]) * Half + w[4]

\* a + n for a number n below 2^16, modulo 2^64
U64AddSmall(a, n) ==
  LET s4 == a[4] + n
      s3 == a[3] + s4 \div Half
      s2 == a[2] + s3 \div Half
      s1 == a[1] + s2 \div Half
  IN <<s1 % Half, s2 % Half, s3 % Half, s4 % Half>>

\* `window_seconds as i64` (lines 36, 62 and 77): the two's-complement reading
\* of the 64 bits, as sign and magnitude; from 2^63 up the number is negative
AsI64(w) ==
  IF w[1] < Half \div 2
    THEN [neg |-> FALSE, mag |-> w]
    ELSE [neg |-> TRUE, mag |-> U64AddSmall([i \in 1..4 |-> Half - 1 - w[i]], 1)]

\* a - b on four limbs, for b <= a
U64Sub(a, b) ==
  LET d4 == a[4] - b[4]
      d3 == a[3] - b[3] - (IF d4 < 0 THEN 1 ELSE 0)
      d2 == a[2] - b[2] - (IF d3 < 0 THEN 1 ELSE 0)
      d1 == a[1] - b[1] - (IF d2 < 0 THEN 1 ELSE 0)
  IN <<d1 % Half, d2 % Half, d3 % Half, d4 % Half>>

\* DateTime::<Utc>::MAX_UTC, the last instant chrono holds: 8210266876799
\* seconds after the Unix epoch (the end of the year 262142)
MaxUtc == <<0, 1911, 39434, 27519>>

\* the magnitude of DateTime::<Utc>::MIN_UTC, the first instant chrono holds:
\* 8334601228800 seconds before the Unix epoch (the start of the year -262143)
MinUtcMagnitude == <<0, 1940, 36082, 4608>>

\* the greatest number of seconds Duration::seconds takes, either way:
\* i64::MAX / 1000 = 9223372036854775
MaxDeltaSeconds == <<32, 50331, 42467, 21495>>

\* instants are integers, the seconds of the clock since the Unix epoch.  The
\* instants next to MAX_UTC are beyond the integers of the checker and are
\* written from FarFuture downwards: FarFuture stands for MAX_UTC, and
\* FarFuture - d for MAX_UTC - d.  The code compares instants and copies
\* them, nothing else, and the writing keeps their order and their equality
FarFuture == Half * (Half \div 4)

\* the instant of w seconds after the Unix epoch
Instant(w) ==
  IF w[1] = 0 /\ w[2] = 0 /\ w[3] < Half \div 4
    THEN U64Value(w)
    ELSE FarFuture - U64Value(U64Sub(MaxUtc, w))

\* now + Duration::seconds(window_seconds as i64) panics, in every build:
\* Duration::seconds panics beyond MaxDeltaSeconds ('TimeDelta::seconds out
\* of bounds'), and the sum has to stay within MIN_UTC and MAX_UTC
\* ('`DateTime + TimeDelta` overflowed')
WindowEndPanics(t) ==
  LET secs == AsI64(config.window_seconds)
  IN \/ U64Less(MaxDeltaSeconds, secs.mag)
     \/ secs.neg /\ U64Less(U64AddSmall(MinUtcMagnitude, t), secs.mag)
     \/ ~secs.neg /\ U64Less(MaxUtc, U64AddSmall(secs.mag, t))

\* now + Duration::seconds(window_seconds as i64), when it does not panic
WindowEnd(t) ==
  LET secs == AsI64(config.window_seconds)
  IN IF secs.neg THEN t - U64Value(secs.mag) ELSE Instant(U64AddSmall(secs.mag, t))

\* the window check() installs for a first request or an expired window:
\* remaining_requests: self.config.max_requests - 1, lines 35 and 61
FirstWindow(u, t) ==
  RateLimitInfo(u, WrappingSub(U32(config.max_requests), 1), WindowEnd(t))

\* the four returns of check: line 39, line 51, line 55, line 66
Expired(u, t) ==
  [write |-> TRUE, ret |-> TRUE, branch |-> "expired", info |-> FirstWindow(u, t)]
\* a grant that leaves the counter as it was
GrantedUncharged(u, info) ==
  [write |-> TRUE, ret |-> TRUE, branch |-> "granted",
   info |-> RateLimitInfo(u, info.remaining_requests, info.reset_at)]
\* line 51: the counter goes down by one
Granted(u, info) ==
  [write |-> TRUE, ret |-> TRUE, branch |-> "granted",
   info |-> RateLimitInfo(u, WrappingSub(info.remaining_requests, 1), info.reset_at)]
Denied(info) ==
  [write |-> FALSE, ret |-> FALSE, branch |-> "denied", info |-> info]
First(u, t) ==
  [write |-> TRUE, ret |-> TRUE, branch |-> "first", info |-> FirstWindow(u, t)]

\* RateLimiter::check, lines 29-66: what it inserts and returns, given the
\* entry `info` it read for the user and the instant t it read (the record
\* info is inserted only when write is TRUE)
CheckDecision(u, info, t) ==
  IF info # None
    THEN IF t > Unwrap(info).reset_at
           THEN Expired(u, t)
           ELSE IF U32Less(U32(0), Unwrap(info).remaining_requests)
                  THEN Granted(u, Unwrap(info))
                  ELSE Denied(Unwrap(info))
    ELSE First(u, t)

\* RateLimiter::reset, lines 74-78: the window it installs
ResetInfo(u, t) == RateLimitInfo(u, U32(config.max_requests), WindowEnd(t))

\* a lock that excludes nobody
MutexFreeNoExclusion(holder) == TRUE

\* self.store.lock(): the Mutex is granted only while nobody holds it
MutexFree(holder) == holder = None

\* the locals of a thread that runs no call; branch names the return taken
IdleFrame == [op |-> "-", user |-> "-", now |-> 0, info |-> None,
              ret |-> None, branch |-> "-", nth |-> 0]

\* a request enters check, reset or get_limit_info:
\* let mut store = self.store.lock().unwrap(); let now = Utc::now();
RlLock(t, op, u) ==
  /\ pc[t] \in {"idle", "done"}
  /\ MutexFree(store_lock)
  /\ store_lock' = Some(t)
  /\ pc' = [pc EXCEPT ![t] = "locked"]
  /\ frame' = [frame EXCEPT ![t] = [IdleFrame EXCEPT !.op = op, !.user = u, !.now = now]]
  /\ UNCHANGED <<now, config, store, quota, notRl>>

\* check, line 29: store.get(user_id)
RlCheckGet(t) ==
  /\ pc[t] = "locked"
  /\ frame[t].op = "check"
  /\ frame' = [frame EXCEPT ![t].info = store[frame[t].user]]
  /\ pc' = [pc EXCEPT ![t] = "decide"]
  /\ UNCHANGED <<now, config, store, store_lock, quota, notRl>>

\* the bookkeeping of the live window: a check at instant t opens a new window
\* when the user has none or the stored one has elapsed, and counts inside the
\* stored one otherwise
QuotaAfterCheck(u, t, ret) ==
  LET fresh == store[u] = None \/ t > Unwrap(store[u]).reset_at
      q == quota[u]
      n == IF fresh THEN 1 ELSE Min(q.checks + 1, config.max_requests + 1)
      g == (IF fresh THEN 0 ELSE q.grants) + (IF ret THEN 1 ELSE 0)
  IN [checks |-> n, grants |-> Min(g, config.max_requests + MaxWrapped + 2)]

\* a check that read the entry info at the instant t is about to build a new
\* window (lines 33-37 or 59-63) and panics: in max_requests - 1 with
\* max_requests = 0 in a build that checks for overflow, or in the window's end
CheckPanicsOn(u, info, t) ==
  /\ IF info = None THEN TRUE ELSE t > Unwrap(info).reset_at
  /\ (SubOverflows(U32(config.max_requests), 1) /\ OverflowChecks) \/ WindowEndPanics(t)

\* a Mutex whose holder panicked: every later lock() returns Err
Poisoned == Some("poisoned")

\* check, lines 35-36 and 61-62: the subtraction or the addition panics while
\* the guard is held; the call never returns and the Mutex is poisoned
RlCheckPanic(t) ==
  /\ pc[t] = "decide"
  /\ CheckPanicsOn(frame[t].user, frame[t].info, frame[t].now)
  /\ pc' = [pc EXCEPT ![t] = "panicked"]
  /\ store_lock' = Poisoned
  /\ frame' = [frame EXCEPT ![t].branch = "panic"]
  /\ UNCHANGED <<now, config, store, quota, notRl>>

\* lines 26, 70 and 85: self.store.lock().unwrap() on the poisoned Mutex panics
RlLockPoisoned(t, op, u) ==
  /\ pc[t] \in {"idle", "done"}
  /\ store_lock = Poisoned
  /\ pc' = [pc EXCEPT ![t] = "panicked"]
  /\ frame' = [frame EXCEPT ![t] = [IdleFrame EXCEPT !.op = op, !.user = u, !.now = now,
                                                      !.branch = "panic"]]
  /\ UNCHANGED <<now, config, store, store_lock, quota, notRl>>

\* check, lines 31-66: decide on the entry read, insert, return (the guard drops)
RlCheckDecide(t) ==
  /\ pc[t] = "decide"
  /\ ~CheckPanicsOn(frame[t].user, frame[t].info, frame[t].now)
  /\ LET u == frame[t].user
         d == CheckDecision(u, frame[t].info, frame[t].now)
         q == QuotaAfterCheck(u, frame[t].now, d.ret)
     IN /\ store' = IF d.write THEN [store EXCEPT ![u] = Some(d.info)] ELSE store
        /\ quota' = [quota EXCEPT ![u] = q]
        /\ frame' = [frame EXCEPT ![t].ret = Some(d.ret), ![t].branch = d.branch,
                                  ![t].nth = q.checks]
  /\ store_lock' = None
  /\ pc' = [pc EXCEPT ![t] = "done"]
  /\ UNCHANGED <<now, config, notRl>>

\* reset, line 77: the addition panics while the guard is held; the call never
\* returns and the Mutex is poisoned
RlResetPanic(t) ==
  /\ pc[t] = "locked"
  /\ frame[t].op = "reset"
  /\ WindowEndPanics(frame[t].now)
  /\ pc' = [pc EXCEPT ![t] = "panicked"]
  /\ store_lock' = Poisoned
  /\ frame' = [frame EXCEPT ![t].branch = "panic"]
  /\ UNCHANGED <<now, config, store, quota, notRl>>

\* reset, lines 70-81
RlReset(t) ==
  /\ pc[t] = "locked"
  /\ frame[t].op = "reset"
  /\ ~WindowEndPanics(frame[t].now)
  /\ LET u == frame[t].user
     IN /\ store' = [store EXCEPT ![u] = Some(ResetInfo(u, frame[t].now))]
        /\ quota' = [quota EXCEPT ![u] = [checks |-> 0, grants |-> 0]]
  /\ frame' = [frame EXCEPT ![t].branch = "reset"]
  /\ store_lock' = None
  /\ pc' = [pc EXCEPT ![t] = "done"]
  /\ UNCHANGED <<now, config, notRl>>

\* get_limit_info, lines 85-86
RlGetLimitInfo(t) ==
  /\ pc[t] = "locked"
  /\ frame[t].op = "get_limit_info"
  /\ frame' = [frame EXCEPT ![t].ret = store[frame[t].user], ![t].branch = "info"]
  /\ store_lock' = None
  /\ pc' = [pc EXCEPT ![t] = "done"]
  /\ UNCHANGED <<now, config, store, quota, notRl>>

\* time passes, between any two steps, up to the instant MaxTime
Tick ==
  /\ now < MaxTime
  /\ now' = now + 1
  /\ UNCHANGED <<config, rlVars, psVars, stVars, hVars>>

\* ================================================================ Presets

PresetIds == {"oracle", "sage"}

\* preset::Preset, reduced to the fields the arbitration reads; from_file
\* (line 47) admits only presets whose user_prompts is non-empty
Preset(id) ==
  [id |-> id,
   system_prompt |-> IF id = "oracle" THEN "You are an oracle." ELSE "You are a sage.",
   user_prompts |-> IF id = "oracle" THEN <<"P", "Q">> ELSE <<"P">>]

\* a second preset under the id "oracle": from_file (lines 47-55) asks every
\* preset for an id, a name, a system_prompt and user_prompts, and does not ask
\* the ids to differ
SecondOracle ==
  [id |-> "oracle", system_prompt |-> "You are a second oracle.", user_prompts |-> <<"R">>]

\* the catalogs from_file can load: any list of valid presets, the empty one
\* and one with a repeated id too
Catalogs ==
  {<<>>, <<Preset("oracle")>>, <<Preset("sage")>>,
   <<Preset("oracle"), Preset("sage")>>, <<Preset("sage"), Preset("oracle")>>,
   <<Preset("oracle"), SecondOracle>>}

\* preset::PresetSelection
PresetSelection(p, at, reset_at) ==
  [preset |-> p, selected_at |-> at, expires_at |-> reset_at]

\* random_preset, lines 83-90: the presets the draw can yield (none: Err)
RandomPreset == {presets[i] : i \in 1..Len(presets)}

\* a selector that trusts the caller's reset_at instead of the pin's expires_at
PinValidByResetAt(selection, reset_at, t) == reset_at > t

\* get_or_select_preset, lines 64-65: the stored selection is still valid
PinValid(selection, reset_at, t) == selection.expires_at > t

\* a selector that stores nothing
SelectDecisionNoStore(selection, reset_at, t, drawn) ==
  IF selection # None /\ PinValid(Unwrap(selection), reset_at, t)
    THEN [ret |-> Some(Unwrap(selection).preset), insert |-> None, branch |-> "reused"]
    ELSE IF drawn = None
      THEN [ret |-> None, insert |-> None, branch |-> "failed"]
      ELSE [ret |-> drawn, insert |-> None,
            branch |-> IF selection = None THEN "selected" ELSE "replaced"]

\* get_or_select_preset, lines 60-81: what it returns (None: Err) and inserts,
\* given the user's stored selection, the instant t and the preset drawn
\* (drawn = None: random_preset failed on an empty catalog); branch tells the
\* return taken: line 66 (reused), line 71 (failed), line 80 with no stored
\* selection (selected) or over an expired one (replaced)
SelectDecision(selection, reset_at, t, drawn) ==
  IF selection # None /\ PinValid(Unwrap(selection), reset_at, t)
    THEN [ret |-> Some(Unwrap(selection).preset), insert |-> None, branch |-> "reused"]
    ELSE IF drawn = None
      THEN [ret |-> None, insert |-> None, branch |-> "failed"]
      ELSE [ret |-> drawn,
            branch |-> IF selection = None THEN "selected" ELSE "replaced",
            insert |-> Some(PresetSelection(Unwrap(drawn), t, reset_at))]

\* the outcomes of random_preset as Option values
Draws == IF presets = <<>> THEN {None} ELSE {Some(p) : p \in RandomPreset}

\* Presets::get_or_select_preset(user_id, reset_at), under the selections Mutex
GetOrSelectPreset(u, reset_at) ==
  /\ \E drawn \in Draws :
       LET d == SelectDecision(selections[u], reset_at, now, drawn)
       IN /\ selections' = IF d.insert # None
                             THEN [selections EXCEPT ![u] = d.insert]
                             ELSE selections
          /\ sel_call' = [user |-> u, reset_at |-> reset_at, ret |-> d.ret,
                          branch |-> d.branch, n |-> 1 - sel_call.n]
  /\ UNCHANGED <<now, config, presets, notPs>>

\* n flips at every call, so that a call is a step even when it changes nothing else
NoCall == [user |-> "-", reset_at |-> 0, ret |-> None, branch |-> "-", n |-> 0]

PsInit(catalogs) ==
  /\ presets \in catalogs
  /\ selections = [u \in UserIds |-> None]
  /\ sel_call = NoCall

\* ================================================================ Storage

Prompts == {"P", "Q"}

\* models::SayingSource
Sources == {"LLM", "Cache", "Database"}

\* models::Saying; content is left out: it travels with id and nothing reads it
Saying(id, prompt, created_at, source, preset_id) ==
  [id |-> id, prompt |-> prompt, created_at |-> created_at, source |-> source,
   preset_id |-> preset_id]

\* a cache key that forgets the preset
CacheKeyPromptOnly(preset_id, prompt) == [preset_id |-> None, prompt |-> prompt]

\* models::CacheKey, lines 16-38: equal iff preset_id and prompt are equal
CacheKey(preset_id, prompt) == [preset_id |-> preset_id, prompt |-> prompt]

\* CacheKey::from_saying
CacheKeyFromSaying(s) == CacheKey(s.preset_id, s.prompt)

\* a test that takes a Cache saying for an LLM one
IsLLMOrCache(s) == s.source \in {"LLM", "Cache"}

\* matches!(saying.source, SayingSource::LLM)
IsLLM(s) == s.source = "LLM"

\* a HashMap or a sled tree with no entry
EmptyMap == [k \in {} |-> k]

\* Vec::sort_by(|a, b| b.created_at.cmp(&a.created_at)): stable, newest first.
\* x goes behind every element that is at least as new
InsertNewestFirst(sorted, x) ==
  LET k == Cardinality({i \in 1..Len(sorted) : sorted[i].created_at >= x.created_at})
  IN SubSeq(sorted, 1, k) \o <<x>> \o SubSeq(sorted, k + 1, Len(sorted))

RECURSIVE SortNewestFirst(_)
SortNewestFirst(list) ==
  IF list = <<>> THEN <<>>
  ELSE InsertNewestFirst(SortNewestFirst(SubSeq(list, 1, Len(list) - 1)), list[Len(list)])

\* a cut that keeps one entry too many
TruncateOneMore(list, limit) == SubSeq(list, 1, Min(limit + 1, Len(list)))

\* Vec::truncate(limit) when len > limit
Truncate(list, limit) == SubSeq(list, 1, Min(limit, Len(list)))

\* the first saying of a list with this prompt and preset_id that is not LLM
\* (storage.rs lines 176-183 and 355-362)
FirstMatch(list, prompt, preset_id) ==
  LET hits == {i \in 1..Len(list) :
                 /\ list[i].prompt = prompt
                 /\ list[i].preset_id = preset_id
                 /\ ~IsLLM(list[i])}
  IN IF hits = {} THEN None
     ELSE Some(list[CHOOSE i \in hits : \A j \in hits : i <= j])

\* ------------------------------------------------------- MemoryStorage


\* an insert that keeps the entry a key already has
MapInsertKeepFirst(map, k, v) == map @@ (k :> v)

\* HashMap::insert and sled::Tree::insert (storage.rs lines 121 and 283): the
\* value replaces the one the key had
MapInsert(map, k, v) == (k :> v) @@ map

\* a save that caches whatever it is given
MemSaveSayingCacheAll(u, s) ==
  [sayings |-> (u :> SortNewestFirst(Append(IF u \in DOMAIN sayings THEN sayings[u]
                                             ELSE <<>>, s))) @@ sayings,
   global_cache |-> (CacheKeyFromSaying(s) :> s) @@ global_cache]

\* MemoryStorage::save_saying, lines 103-125: the two maps after the call
MemSaveSaying(u, s) ==
  [sayings |-> (u :> SortNewestFirst(Append(IF u \in DOMAIN sayings THEN sayings[u]
                                             ELSE <<>>, s))) @@ sayings,
   global_cache |-> IF ~IsLLM(s)
                      THEN MapInsert(global_cache, CacheKeyFromSaying(s), s)
                      ELSE global_cache]

\* MemoryStorage::find_cached_saying, lines 158-188: the results it can return;
\* the fallback scan visits the users in the HashMap's order, which is any order
MemFindCachedSaying(prompt, preset_id) ==
  LET key == CacheKey(preset_id, prompt)
      hits == {FirstMatch(sayings[u], prompt, preset_id) : u \in DOMAIN sayings} \ {None}
  IN IF key \in DOMAIN global_cache THEN {Some(global_cache[key])}
     ELSE IF hits = {} THEN {None} ELSE hits

\* MemoryStorage::get_last_saying, lines 127-139
MemGetLastSaying(u) ==
  IF u \in DOMAIN sayings /\ sayings[u] # <<>> THEN Some(sayings[u][1]) ELSE None

\* MemoryStorage::get_sayings, lines 141-156
MemGetSayings(u, limit) ==
  IF u \in DOMAIN sayings THEN Truncate(sayings[u], limit) ELSE <<>>

\* the orders in which a HashMap can hand out the elements of S
Perms(S) == {f \in [1..Cardinality(S) -> S] : \A x \in S : \E i \in DOMAIN f : f[i] = x}

\* all_cached_sayings.iter().any(|s| s.prompt == .. && s.preset_id == ..)
IsDuplicate(acc, s) ==
  \E i \in 1..Len(acc) : acc[i].prompt = s.prompt /\ acc[i].preset_id = s.preset_id

\* one pass over a user's list (lines 201-212, or 218-228 with llm = TRUE):
\* push the sayings of the wanted kind whose key is not in the result yet
RECURSIVE PushDistinct(_, _, _)
PushDistinct(acc, list, llm) ==
  IF list = <<>> THEN acc
  ELSE LET s == list[1]
           next == IF IsLLM(s) = llm /\ ~IsDuplicate(acc, s) THEN Append(acc, s) ELSE acc
       IN PushDistinct(next, SubSeq(list, 2, Len(list)), llm)

\* for user_sayings in sayings_map.values(), in the order given
RECURSIVE ScanUsers(_, _, _)
ScanUsers(acc, order, llm) ==
  IF order = <<>> THEN acc
  ELSE ScanUsers(PushDistinct(acc, sayings[order[1]], llm),
                 SubSeq(order, 2, Len(order)), llm)

\* lines 192-233 for one iteration order of each HashMap
AnyCachedCandidates(keys, users, limit) ==
  LET cached == [i \in 1..Len(keys) |-> global_cache[keys[i]]]
      others == IF Len(cached) < limit THEN ScanUsers(cached, users, FALSE) ELSE cached
  IN IF Len(cached) < limit /\ Len(others) < limit
       THEN ScanUsers(others, users, TRUE)
       ELSE others

\* MemoryStorage::get_any_cached_sayings, lines 190-243: the lists it can return
MemGetAnyCachedSayings(limit) ==
  {Truncate(SortNewestFirst(AnyCachedCandidates(keys, users, limit)), limit) :
     keys \in Perms(DOMAIN global_cache), users \in Perms(DOMAIN sayings)}

\* --------------------------------------------------------- SledStorage

\* serde_json of Option<String>: null or a string
JsonOption(o) == IF o = None THEN <<"null">> ELSE <<"string", Unwrap(o)>>
FromJsonOption(j) == IF j[1] = "null" THEN None ELSE Some(j[2])

\* #[serde(rename = ...)] of SayingSource
SourceToJson(src) ==
  CASE src = "LLM" -> "llm" [] src = "Cache" -> "cache" [] src = "Database" -> "database"
SourceFromJson(j) ==
  CASE j = "llm" -> "LLM" [] j = "cache" -> "Cache" [] j = "database" -> "Database"

\* serde_json::to_vec(&saying) and serde_json::from_slice
SayingToJson(s) ==
  [id |-> s.id, prompt |-> s.prompt, created_at |-> s.created_at,
   source |-> SourceToJson(s.source), preset_id |-> JsonOption(s.preset_id)]
SayingFromJson(j) ==
  Saying(j.id, j.prompt, j.created_at, SourceFromJson(j.source),
         FromJsonOption(j.preset_id))
SayingsToJson(list) == [i \in 1..Len(list) |-> SayingToJson(list[i])]
SayingsFromJson(j) == [i \in 1..Len(j) |-> SayingFromJson(j[i])]

\* serde_json::to_vec(&cache_key)
KeyToJson(k) == [preset_id |-> JsonOption(k.preset_id), prompt |-> k.prompt]

\* key.starts_with(b"__")
StartsWithDunder(key) == key \in {"__u2"}

\* the keys of the default tree in sled's iteration order (byte order)
KeysInOrder == <<"__u2", "u1">>

\* SledStorage::get_sayings, lines 302-321
SledGetSayings(d, u, limit) ==
  IF u \in DOMAIN d.tree
    THEN Truncate(SortNewestFirst(SayingsFromJson(d.tree[u])), limit)
    ELSE <<>>

\* get_sayings(user_id, usize::MAX): nothing is cut off
SledAllSayings(d, u) ==
  IF u \in DOMAIN d.tree THEN SledGetSayings(d, u, Len(d.tree[u])) ELSE <<>>

\* a save that caches whatever it is given
SledSaveSayingCacheAll(d, u, s) ==
  [tree |-> (u :> SayingsToJson(SortNewestFirst(Append(SledAllSayings(d, u), s)))) @@ d.tree,
   global_cache |-> (KeyToJson(CacheKeyFromSaying(s)) :> SayingToJson(s)) @@ d.global_cache]

\* SledStorage::save_saying, lines 259-288: the database after the call
SledSaveSaying(d, u, s) ==
  LET list == SortNewestFirst(Append(SledAllSayings(d, u), s))
  IN [tree |-> (u :> SayingsToJson(list)) @@ d.tree,
      global_cache |->
        IF ~IsLLM(s)
          THEN MapInsert(d.global_cache, KeyToJson(CacheKeyFromSaying(s)), SayingToJson(s))
          ELSE d.global_cache]

\* the first hit of the scan of lines 342-363 over the keys from position i on
RECURSIVE SledScan(_, _, _, _)
SledScan(d, i, prompt, preset_id) ==
  IF i > Len(KeysInOrder) THEN None
  ELSE LET key == KeysInOrder[i]
           hit == IF key \in DOMAIN d.tree /\ ~StartsWithDunder(key)
                    THEN FirstMatch(SayingsFromJson(d.tree[key]), prompt, preset_id)
                    ELSE None
       IN IF hit # None THEN hit ELSE SledScan(d, i + 1, prompt, preset_id)

\* SledStorage::find_cached_saying, lines 323-367
SledFindCachedSaying(d, prompt, preset_id) ==
  LET key == KeyToJson(CacheKey(preset_id, prompt))
  IN IF key \in DOMAIN d.global_cache
       THEN Some(SayingFromJson(d.global_cache[key]))
       ELSE SledScan(d, 1, prompt, preset_id)

\* SledStorage::get_last_saying, lines 290-300
SledGetLastSaying(d, u) ==
  LET list == SledGetSayings(d, u, 1)
  IN IF list = <<>> THEN None ELSE Some(list[1])

\* the keys of the "global_cache" tree in sled's iteration order: the byte
\* order of {"preset_id":..,"prompt":..}, where a string sorts before null
CacheKeysInOrder ==
  <<KeyToJson(CacheKey(Some("oracle"), "P")), KeyToJson(CacheKey(Some("oracle"), "Q")),
    KeyToJson(CacheKey(Some("sage"), "P")), KeyToJson(CacheKey(Some("sage"), "Q")),
    KeyToJson(CacheKey(None, "P")), KeyToJson(CacheKey(None, "Q"))>>

\* lines 375-387: the entries of the global cache in iteration order
SledCacheValues(d) ==
  LET present == SelectSeq(CacheKeysInOrder, LAMBDA k : k \in DOMAIN d.global_cache)
  IN [i \in 1..Len(present) |-> SayingFromJson(d.global_cache[present[i]])]

\* lines 405-418 (or 439-452 with llm = TRUE): one user's list; st holds the
\* result so far and seen_keys; the loop breaks right after the push that
\* makes the result reach limit
RECURSIVE SledPushDistinct(_, _, _, _)
SledPushDistinct(st, list, llm, limit) ==
  IF list = <<>> THEN st
  ELSE LET s == list[1]
           key == CacheKeyFromSaying(s)
           rest == SubSeq(list, 2, Len(list))
       IN IF IsLLM(s) = llm /\ key \notin st.seen
            THEN LET next == [acc |-> Append(st.acc, s), seen |-> st.seen \cup {key}]
                 IN IF Len(next.acc) >= limit THEN next
                    ELSE SledPushDistinct(next, rest, llm, limit)
            ELSE SledPushDistinct(st, rest, llm, limit)

\* lines 394-424 (or 428-458): the default tree from position i on; the loop
\* breaks after the first user that leaves the result at limit or above
RECURSIVE SledScanUsers(_, _, _, _, _)
SledScanUsers(d, st, i, llm, limit) ==
  IF i > Len(KeysInOrder) THEN st
  ELSE LET key == KeysInOrder[i]
       IN IF key \notin DOMAIN d.tree \/ StartsWithDunder(key)
            THEN SledScanUsers(d, st, i + 1, llm, limit)
            ELSE LET next == SledPushDistinct(st, SayingsFromJson(d.tree[key]), llm, limit)
                 IN IF Len(next.acc) >= limit THEN next
                    ELSE SledScanUsers(d, next, i + 1, llm, limit)

\* SledStorage::get_any_cached_sayings, lines 369-467
SledGetAnyCachedSayings(d, limit) ==
  LET cached == SledCacheValues(d)
      taken == IF limit = 0 THEN 1 ELSE limit
  IN IF Len(cached) >= taken
       THEN SortNewestFirst(SubSeq(cached, 1, taken))
       ELSE LET others == SledScanUsers(d, [acc |-> cached, seen |-> {}], 1, FALSE, limit)
                all == IF Len(others.acc) < limit
                         THEN SledScanUsers(d, others, 1, TRUE, limit)
                         ELSE others
            IN SortNewestFirst(all.acc)

\* ---------------------------------------------------------------- Storage

\* anyhow::Result<T>
Ok(x) == <<"Ok", x>>
Err == <<"Err">>
IsOk(r) == r[1] = "Ok"
Val(r) == r[2]

\* the kinds Storage::new matches on (storage.rs lines 23-44)
StorageTypes == {"Memory", "SQLite", "Redis", "Sled"}

\* the configurations Storage::new can be given (storage.rs lines 21-44; the
\* arm at line 34 and main.rs line 72 name StorageType::Sled); open_ok tells
\* whether sled::open and open_tree succeed on connection_string, which only
\* the Sled arm tries
StorageConfigs ==
  {[type_ |-> t, open_ok |-> TRUE] : t \in StorageTypes}
    \cup {[type_ |-> "Sled", open_ok |-> FALSE]}

\* a constructor that keeps the durable backend although it failed to open
StorageNewKeepSled(c) ==
  [type_ |-> c.type_, open_ok |-> c.open_ok,
   inner |-> IF c.type_ = "Sled" THEN "Sled" ELSE "Memory"]

\* Storage::new, lines 21-47
StorageNew(c) ==
  [type_ |-> c.type_, open_ok |-> c.open_ok,
   inner |-> IF c.type_ = "Sled" /\ c.open_ok THEN "Sled" ELSE "Memory"]

\* Storage::get_last_saying, lines 56-61: the results it can return; every
\* sled operation can fail with an I/O error, no MemoryStorage operation can
StorageGetLastSaying(u) ==
  IF storage.inner = "Memory" THEN {Ok(MemGetLastSaying(u))}
  ELSE {Ok(SledGetLastSaying(db, u)), Err}

\* Storage::get_sayings, lines 63-69
StorageGetSayings(u, limit) ==
  IF storage.inner = "Memory" THEN {Ok(MemGetSayings(u, limit))}
  ELSE {Ok(SledGetSayings(db, u, limit)), Err}

\* Storage::find_cached_saying, lines 71-77.  On sled (lines 323-367) a
\* failing open_tree, iteration step or deserialization returns Err; a failing
\* get on the "global_cache" tree does not match Ok(Some(..)) at line 335 and
\* the call goes on with the scan of the users' lists
StorageFindCachedSaying(prompt, preset_id) ==
  IF storage.inner = "Memory"
    THEN {Ok(r) : r \in MemFindCachedSaying(prompt, preset_id)}
    ELSE {Ok(SledFindCachedSaying(db, prompt, preset_id)),
          Ok(SledScan(db, 1, prompt, preset_id)), Err}

\* Storage::get_any_cached_sayings, lines 79-84
StorageGetAnyCachedSayings(limit) ==
  IF storage.inner = "Memory"
    THEN {Ok(list) : list \in MemGetAnyCachedSayings(limit)}
    ELSE {Ok(SledGetAnyCachedSayings(db, limit)), Err}

\* Storage::save_saying, lines 49-54: the result and the backend's state after
\* the call.  SledStorage::save_saying fails before it wrote anything (lines
\* 261-272) or, for a saying that is not LLM, after the user's list was
\* written and before the global cache was (lines 276-284)
StorageSaveSaying(u, s) ==
  IF storage.inner = "Memory"
    THEN {[result |-> Ok(s), sayings |-> MemSaveSaying(u, s).sayings,
           global_cache |-> MemSaveSaying(u, s).global_cache, db |-> db, wrote |-> TRUE]}
    ELSE {[result |-> Ok(s), sayings |-> sayings, global_cache |-> global_cache,
           db |-> SledSaveSaying(db, u, s), wrote |-> TRUE],
          [result |-> Err, sayings |-> sayings, global_cache |-> global_cache,
           db |-> db, wrote |-> FALSE]}
         \cup
         (IF IsLLM(s) THEN {}
          ELSE {[result |-> Err, sayings |-> sayings, global_cache |-> global_cache,
                 db |-> [SledSaveSaying(db, u, s) EXCEPT !.global_cache = db.global_cache],
                 wrote |-> TRUE]})

\* the backends a specification starts from
BackendInit(configs) == \E c \in configs : storage = StorageNew(c)

\* STORAGE_TYPE=memory, the default of config.rs line 76
MemoryConfig == [type_ |-> "Memory", open_ok |-> TRUE]
\* the durable backend, opened
SledConfig == [type_ |-> "Sled", open_ok |-> TRUE]

\* ------------------------------------------------ Storage: the operations

\* created_at of the sayings handed to save_saying: equal, rising or falling
Stamps == {0, 1}
\* the (preset_id, prompt) pairs of the sayings handed to save_saying
SavedKeys == {CacheKey(None, "P"), CacheKey(Some("oracle"), "P"), CacheKey(Some("oracle"), "Q")}
\* the pair of the sayings saved where only the histories are read, which do
\* not look at it
ReadKey == CacheKey(None, "P")
\* the sources of the sayings handed to save_saying: openrouter.rs line 129
\* builds LLM sayings and the callers of lines 501 and 551 Cache ones; nothing
\* in the repository builds a Database saying
SavedSources == {"LLM", "Cache"}
\* the presets find_cached_saying is asked for
PresetRefs == {None, Some("oracle")}

\* the limits get_sayings and get_any_cached_sayings are asked for
Limits == {0, 1, 2}

\* mem, sled: what each backend returned to a call made on both; ret: what
\* Storage returned to a call made through it
NoStCall == [op |-> "-", user |-> "-", prompt |-> "-", preset_id |-> None,
             limit |-> 0, mem |-> None, sled |-> None, ret |-> None]

\* Storage::save_saying(user_id, saying) on either backend (lines 49-54), as
\* long as fewer than n sayings were saved
StSaveWithin(n, u, s) ==
  /\ Len(log) < n
  /\ LET m == MemSaveSaying(u, s)
     IN /\ sayings' = m.sayings
        /\ global_cache' = m.global_cache
  /\ db' = SledSaveSaying(db, u, s)
  /\ log' = Append(log, <<u, s>>)
  /\ st_call' = [NoStCall EXCEPT !.op = "save", !.user = u, !.prompt = s.prompt,
                   !.preset_id = s.preset_id, !.mem = Some(s), !.sled = Some(s)]
  /\ held' = IF held = Some(s) THEN None ELSE held
  /\ UNCHANGED <<now, config, storage, mlVars, notSt>>

StSave(u, s) == StSaveWithin(MaxSayings, u, s)

\* a saying with a fresh uuid is saved
StSaveNew(u, key, source, created_at) ==
  StSave(u, Saying(Len(log) + 1, key.prompt, created_at, source, key.preset_id))

\* Storage::find_cached_saying(prompt, preset_id) on either backend (lines
\* 71-76); a caller that keeps the saying that came back holds it from then on
StFindKeeping(keeps, prompt, preset_id) ==
  /\ \E r \in MemFindCachedSaying(prompt, preset_id) :
       /\ st_call' = [NoStCall EXCEPT !.op = "find", !.prompt = prompt,
                        !.preset_id = preset_id, !.mem = r,
                        !.sled = SledFindCachedSaying(db, prompt, preset_id)]
       /\ held' = IF keeps /\ r # None THEN r ELSE held
  /\ UNCHANGED <<now, config, sayings, global_cache, db, log, storage, mlVars, notSt>>

\* the call of a caller that keeps nothing
StFind(prompt, preset_id) == StFindKeeping(FALSE, prompt, preset_id)

\* the call of a create_saying request (handlers.rs line 309): what it finds
\* is the request's cached_result
StFindCached(prompt, preset_id) == StFindKeeping(TRUE, prompt, preset_id)

\* the request saves what its find_cached_saying returned, for the asking
\* user (handlers.rs line 343), and is over; other calls may have run since
\* the find.  One such save is made beside the MaxSayings others
StSaveFound(u) ==
  /\ held # None
  /\ StSaveWithin(MaxSayings + 1, u, Unwrap(held))

\* Storage::get_last_saying(user_id) on either backend (lines 56-61)
StLast(u) ==
  /\ st_call' = [NoStCall EXCEPT !.op = "last", !.user = u,
                   !.mem = MemGetLastSaying(u), !.sled = SledGetLastSaying(db, u)]
  /\ UNCHANGED <<now, config, sayings, global_cache, db, log, storage, held, mlVars, notSt>>

\* Storage::get_sayings(user_id, limit) on either backend (lines 63-69)
StHistory(u, limit) ==
  /\ st_call' = [NoStCall EXCEPT !.op = "history", !.user = u, !.limit = limit,
                   !.mem = MemGetSayings(u, limit),
                   !.sled = SledGetSayings(db, u, limit)]
  /\ UNCHANGED <<now, config, sayings, global_cache, db, log, storage, held, mlVars, notSt>>

\* Storage::get_any_cached_sayings(limit) on either backend (lines 79-84)
StAny(limit) ==
  /\ \E r \in MemGetAnyCachedSayings(limit) :
       st_call' = [NoStCall EXCEPT !.op = "any", !.limit = limit, !.mem = r,
                     !.sled = SledGetAnyCachedSayings(db, limit)]
  /\ UNCHANGED <<now, config, sayings, global_cache, db, log, storage, held, mlVars, notSt>>

\* Storage::save_saying(user_id, saying) on the backend Storage::new chose;
\* the saying is new, created after the ones saved before
BkSave(u, key, source) ==
  /\ Len(log) < MaxSayings
  /\ LET s == Saying(Len(log) + 1, key.prompt, Len(log), source, key.preset_id)
     IN \E o \in StorageSaveSaying(u, s) :
          /\ sayings' = o.sayings
          /\ global_cache' = o.global_cache
          /\ db' = o.db
          /\ log' = IF o.wrote THEN Append(log, <<u, s>>) ELSE log
          /\ st_call' = [NoStCall EXCEPT !.op = "save", !.user = u, !.prompt = s.prompt,
                           !.preset_id = s.preset_id, !.ret = o.result]
  /\ UNCHANGED <<now, config, storage, held, mlVars, notSt>>

\* Storage::get_last_saying(user_id) on the backend Storage::new chose
BkLast(u) ==
  /\ \E r \in StorageGetLastSaying(u) :
       st_call' = [NoStCall EXCEPT !.op = "last", !.user = u, !.ret = r]
  /\ UNCHANGED <<now, config, sayings, global_cache, db, log, storage, held, mlVars, notSt>>

\* Storage::get_sayings(user_id, limit) on the backend Storage::new chose
BkHistory(u, limit) ==
  /\ \E r \in StorageGetSayings(u, limit) :
       st_call' = [NoStCall EXCEPT !.op = "history", !.user = u, !.limit = limit,
                     !.ret = r]
  /\ UNCHANGED <<now, config, sayings, global_cache, db, log, storage, held, mlVars, notSt>>

\* Storage::find_cached_saying(prompt, preset_id) on the backend Storage::new chose
BkFind(prompt, preset_id) ==
  /\ \E r \in StorageFindCachedSaying(prompt, preset_id) :
       st_call' = [NoStCall EXCEPT !.op = "find", !.prompt = prompt,
                     !.preset_id = preset_id, !.ret = r]
  /\ UNCHANGED <<now, config, sayings, global_cache, db, log, storage, held, mlVars, notSt>>

\* Storage::get_any_cached_sayings(limit) on the backend Storage::new chose
BkAny(limit) ==
  /\ \E r \in StorageGetAnyCachedSayings(limit) :
       st_call' = [NoStCall EXCEPT !.op = "any", !.limit = limit, !.ret = r]
  /\ UNCHANGED <<now, config, sayings, global_cache, db, log, storage, held, mlVars, notSt>>

\* a thread that runs no MemoryStorage call.  pc: "idle", "save_cache" (holds
\* sayings, at line 120), "find_scan" (holds global_cache, at line 171),
\* "any_scan" (holds global_cache, at line 197), "done"
NoMemCall == [op |-> "-", pc |-> "idle", user |-> "-", saying |-> None,
              prompt |-> "-", preset_id |-> None, limit |-> 0, ret |-> None]

\* the call of thread t moves to position p with result r
MemCallAt(t, p, r) == [mem_call EXCEPT ![t].pc = p, ![t].ret = r]

\* MemoryStorage::save_saying, lines 105-115 (and 124 for an LLM saying): the
\* thread locks sayings, pushes and sorts; an LLM saying is returned at once
\* and the guard drops, any other leaves the thread before line 120 holding
\* sayings
MlSavePush(t, u, s) ==
  /\ mem_call[t].pc \in {"idle", "done"}
  /\ Len(log) < MaxSayings
  /\ MutexFree(mem_locks.sayings)
  /\ sayings' = MemSaveSaying(u, s).sayings
  /\ log' = Append(log, <<u, s>>)
  /\ LET call == [NoMemCall EXCEPT !.op = "save", !.user = u, !.saying = Some(s),
                                   !.prompt = s.prompt, !.preset_id = s.preset_id]
     IN IF IsLLM(s)
          THEN /\ mem_call' = [mem_call EXCEPT ![t] =
                                [call EXCEPT !.pc = "done", !.ret = Some(s)]]
               /\ mem_locks' = mem_locks
          ELSE /\ mem_call' = [mem_call EXCEPT ![t] = [call EXCEPT !.pc = "save_cache"]]
               /\ mem_locks' = [mem_locks EXCEPT !.sayings = Some(t)]
  /\ UNCHANGED <<now, config, global_cache, db, st_call, storage, held, sled_call, notSt>>

\* save_saying, lines 120-124: the thread locks global_cache while it holds
\* sayings, inserts, returns, and both guards drop
MlSaveCache(t) ==
  /\ mem_call[t].pc = "save_cache"
  /\ MutexFree(mem_locks.global_cache)
  /\ global_cache' = MemSaveSaying(mem_call[t].user, Unwrap(mem_call[t].saying)).global_cache
  /\ mem_call' = MemCallAt(t, "done", mem_call[t].saying)
  /\ mem_locks' = [mem_locks EXCEPT !.sayings = None]
  /\ UNCHANGED <<now, config, sayings, db, log, st_call, storage, held, sled_call, notSt>>

\* MemoryStorage::find_cached_saying, lines 160-168: the thread locks
\* global_cache and looks the key up; a hit is returned at once and the guard
\* drops, a miss leaves the thread before line 171 holding global_cache
MlFindLookup(t, prompt, preset_id) ==
  /\ mem_call[t].pc \in {"idle", "done"}
  /\ MutexFree(mem_locks.global_cache)
  /\ LET key == CacheKey(preset_id, prompt)
         call == [NoMemCall EXCEPT !.op = "find", !.prompt = prompt,
                                   !.preset_id = preset_id]
     IN IF key \in DOMAIN global_cache
          THEN /\ mem_call' = [mem_call EXCEPT ![t] =
                                [call EXCEPT !.pc = "done",
                                             !.ret = Some(Some(global_cache[key]))]]
               /\ mem_locks' = mem_locks
          ELSE /\ mem_call' = [mem_call EXCEPT ![t] = [call EXCEPT !.pc = "find_scan"]]
               /\ mem_locks' = [mem_locks EXCEPT !.global_cache = Some(t)]
  /\ UNCHANGED <<now, config, sayings, global_cache, db, log, st_call, storage, held, sled_call, notSt>>

\* find_cached_saying, lines 171-187: the thread locks sayings while it holds
\* global_cache, scans, returns, and both guards drop
MlFindScan(t) ==
  /\ mem_call[t].pc = "find_scan"
  /\ MutexFree(mem_locks.sayings)
  /\ \E r \in MemFindCachedSaying(mem_call[t].prompt, mem_call[t].preset_id) :
       mem_call' = MemCallAt(t, "done", Some(r))
  /\ mem_locks' = [mem_locks EXCEPT !.global_cache = None]
  /\ UNCHANGED <<now, config, sayings, global_cache, db, log, st_call, storage, held, sled_call, notSt>>

\* MemoryStorage::get_any_cached_sayings, lines 192-196 (and 234-242 when the
\* cache has limit entries): the thread locks global_cache and collects its
\* values; with fewer than limit it is left before line 197 holding global_cache
MlAnyCollect(t, limit) ==
  /\ mem_call[t].pc \in {"idle", "done"}
  /\ MutexFree(mem_locks.global_cache)
  /\ LET call == [NoMemCall EXCEPT !.op = "any", !.limit = limit]
     IN IF Cardinality(DOMAIN global_cache) < limit
          THEN /\ mem_call' = [mem_call EXCEPT ![t] = [call EXCEPT !.pc = "any_scan"]]
               /\ mem_locks' = [mem_locks EXCEPT !.global_cache = Some(t)]
          ELSE /\ \E r \in MemGetAnyCachedSayings(limit) :
                    mem_call' = [mem_call EXCEPT ![t] =
                                   [call EXCEPT !.pc = "done", !.ret = Some(r)]]
               /\ mem_locks' = mem_locks
  /\ UNCHANGED <<now, config, sayings, global_cache, db, log, st_call, storage, held, sled_call, notSt>>

\* get_any_cached_sayings, lines 197-242: the thread locks sayings while it
\* holds global_cache, fills up, sorts, cuts, returns, and both guards drop
MlAnyScan(t) ==
  /\ mem_call[t].pc = "any_scan"
  /\ MutexFree(mem_locks.sayings)
  /\ \E r \in MemGetAnyCachedSayings(mem_call[t].limit) :
       mem_call' = MemCallAt(t, "done", Some(r))
  /\ mem_locks' = [mem_locks EXCEPT !.global_cache = None]
  /\ UNCHANGED <<now, config, sayings, global_cache, db, log, st_call, storage, held, sled_call, notSt>>

\* a thread that runs no SledStorage::save_saying.  pc: "idle", "write" (the
\* list is read, before line 271), "cache" (the list is written, before line
\* 283), "done"; list: the local sayings; calls: the calls the thread has
\* made; saved: those that returned Ok
NoSledCall == [pc |-> "idle", user |-> "-", saying |-> None, list |-> <<>>,
               calls |-> 0, saved |-> <<>>]

\* the save_saying calls made on SledStorage so far
SledStarted == sled_call["t1"].calls + sled_call["t2"].calls

\* SledStorage::save_saying, lines 261-267: get_sayings(user_id, usize::MAX),
\* then push and sort on the local list
SlSaveRead(t, u, s) ==
  /\ sled_call[t].pc \in {"idle", "done"}
  /\ SledStarted < MaxSayings
  /\ sled_call' = [sled_call EXCEPT ![t].pc = "write", ![t].user = u,
                                    ![t].saying = Some(s), ![t].calls = @ + 1,
                                    ![t].list = SortNewestFirst(Append(SledAllSayings(db, u), s))]
  /\ UNCHANGED <<now, config, sayings, global_cache, db, log, st_call, storage, held,
                 mem_locks, mem_call, notSt>>

\* the call of thread t returns Ok(saying)
SledReturned(t) ==
  [sled_call EXCEPT ![t].pc = "done",
                    ![t].saved = Append(@, <<sled_call[t].user, Unwrap(sled_call[t].saying)>>)]

\* lines 270-271 (and 287 for an LLM saying): the local list is serialized and
\* inserted under the user's key
SlSaveWrite(t) ==
  /\ sled_call[t].pc = "write"
  /\ db' = [db EXCEPT !.tree = MapInsert(db.tree, sled_call[t].user,
                                          SayingsToJson(sled_call[t].list))]
  /\ sled_call' = IF IsLLM(Unwrap(sled_call[t].saying)) THEN SledReturned(t)
                    ELSE [sled_call EXCEPT ![t].pc = "cache"]
  /\ UNCHANGED <<now, config, sayings, global_cache, log, st_call, storage, held,
                 mem_locks, mem_call, notSt>>

\* lines 274-287: the saying is inserted into the global cache tree
SlSaveCache(t) ==
  /\ sled_call[t].pc = "cache"
  /\ LET s == Unwrap(sled_call[t].saying)
     IN db' = [db EXCEPT !.global_cache =
                 MapInsert(db.global_cache, KeyToJson(CacheKeyFromSaying(s)), SayingToJson(s))]
  /\ sled_call' = SledReturned(t)
  /\ UNCHANGED <<now, config, sayings, global_cache, log, st_call, storage, held,
                 mem_locks, mem_call, notSt>>

\* lines 271, 276 and 283: an insert or open_tree fails and the call returns Err
SlSaveFail(t) ==
  /\ sled_call[t].pc \in {"write", "cache"}
  /\ sled_call' = [sled_call EXCEPT ![t].pc = "done"]
  /\ UNCHANGED <<now, config, sayings, global_cache, db, log, st_call, storage, held,
                 mem_locks, mem_call, notSt>>

\* MemoryStorage::new, and SledStorage::new on a fresh path
StInit ==
  /\ sayings = EmptyMap
  /\ global_cache = EmptyMap
  /\ db = [tree |-> EmptyMap, global_cache |-> EmptyMap]
  /\ log = <<>>
  /\ st_call = NoStCall
  /\ held = None
  /\ mem_locks = [sayings |-> None, global_cache |-> None]
  /\ mem_call = [t \in Threads |-> NoMemCall]
  /\ sled_call = [t \in Threads |-> NoSledCall]

\* ========================================================== create_saying

\* the bodies of POST /sayings: payload.prompt and payload.preset_id
Requests ==
  {[prompt |-> Some("P"), preset_id |-> Some("nope")],
   [prompt |-> None, preset_id |-> Some("oracle")],
   [prompt |-> None, preset_id |-> Some("nope")],
   [prompt |-> None, preset_id |-> None]}

\* the locals of create_saying.  cool: what get_limit_info returned at line
\* 204; info: rate_limit_info of line 261; window: reset_at of the user's
\* window when check
\* returned; prev: persona of the user before this request; path: the return
\* taken; status: the HTTP outcome; response: the SayingResponse of a 200 or
\* 201; calls: the collaborators' operations invoked so far, in order; errors:
\* the storage operations that returned Err; llm: whether OpenRouter answered;
\* handler: the handler that serves the request
IdleReq ==
  [handler |-> "create_saying",
   pc |-> "idle", user |-> "-", prompt |-> None, preset |-> None,
   cool |-> None, info |-> None, user_prompt |-> "-", preset_id |-> None,
   can_proceed |-> None, window |-> 0, prev |-> None,
   saying |-> None, path |-> "-", status |-> "-",
   response |-> None, calls |-> <<>>, errors |-> {}, llm |-> None]

\* Presets::get_preset_by_id, lines 92-94
GetPresetById(id) ==
  LET hits == {i \in 1..Len(presets) : presets[i].id = id}
  IN IF hits = {} THEN None ELSE Some(presets[CHOOSE i \in hits : \A j \in hits : i <= j])

\* Presets::random_user_prompt, lines 100-110: the prompts the draw can yield
RandomUserPrompt(id) ==
  LET p == GetPresetById(id)
  IN IF p = None THEN {}
     ELSE {Unwrap(p).user_prompts[i] : i \in 1..Len(Unwrap(p).user_prompts)}

\* lines 204-207: is_rate_limited
IsRateLimited(info, t) == info # None /\ Unwrap(info).remaining_requests = U32(0)

\* impl Display for SayingSource, models.rs lines 59-67
SourceToString(src) ==
  CASE src = "LLM" -> "llm" [] src = "Cache" -> "cache" [] src = "Database" -> "database"

\* impl From<Saying> for SayingResponse, lines 120-129
SayingResponseFrom(s) ==
  [id |-> s.id, created_at |-> s.created_at, source |-> SourceToString(s.source)]

\* one more operation invoked by the request r; ok tells whether it returned Ok
Called(r, name, ok) ==
  [r EXCEPT !.calls = Append(@, name),
            !.errors = IF ok THEN @ ELSE @ \cup {name}]

\* the request r returns an error
Fail(r, status, path) == [r EXCEPT !.pc = "done", !.status = status, !.path = path]

\* the request r returns (status, Json(SayingResponse::from(saying)))
Respond(r, status, path, saying) ==
  [r EXCEPT !.pc = "done", !.status = status, !.path = path,
            !.saying = Some(saying), !.response = Some(SayingResponseFrom(saying))]

\* is_user_allowed, lines 132-148: every id but TEST_USER_ID is allowed; the
\* test user is allowed under cfg(debug_assertions) and refused without.  The
\* dev profile sets debug_assertions and the overflow checks, the release
\* profile neither
IsUserAllowed(u) == u # TestUserId \/ OverflowChecks

\* line 238, is_user_allowed(&user_id)?, met by a request that the cooldown
\* branch (lines 210-235) did not answer: the request goes on to line 241 or
\* ends with AccessDenied (403)
AccessCheck(r) ==
  IF IsUserAllowed(r.user) THEN [r EXCEPT !.pc = "resolve"]
  ELSE Fail(r, "AccessDenied", "forbidden")

\* lines 196-238: the request arrives and get_limit_info is read; a user in
\* cooldown goes to the cooldown branch, another one to the access check; the
\* service is followed for cap requests
HStartAt(u, prompt, preset, cap) ==
  /\ req.pc \in {"idle", "done"}
  /\ admits < cap
  /\ admits' = admits + 1
  /\ LET r == [IdleReq EXCEPT !.user = u, !.prompt = prompt, !.preset = preset,
                              !.calls = <<"get_limit_info">>]
     IN req' = IF store_lock = Poisoned
                 THEN Fail(r, "Panic", "panic")
                 ELSE IF IsRateLimited(store[u], now)
                   THEN [r EXCEPT !.pc = "last", !.cool = store[u]]
                   ELSE AccessCheck([r EXCEPT !.cool = store[u]])
  /\ UNCHANGED <<now, config, rlVars, psVars, stVars, persona, caVars>>

HStart(u, prompt, preset) == HStartAt(u, prompt, preset, MaxAdmits)

\* line 214, if let Ok(Some(last_saying)), and line 221, Ok(sayings) if
\* !sayings.is_empty(): the lookup r yields something to serve
Serves(r) == IsOk(r) /\ Val(r) # <<>>

\* lines 214-217: the user's own last saying is served
HLastSaying ==
  /\ req.pc = "last"
  /\ \E r \in StorageGetLastSaying(req.user) :
       LET c == Called(req, "get_last_saying", IsOk(r))
       IN req' = IF Serves(r) THEN Respond(c, "200", "last", Unwrap(Val(r)))
                 ELSE [c EXCEPT !.pc = "any"]
  /\ UNCHANGED <<now, config, rlVars, psVars, stVars, persona, admits, caVars>>

\* lines 220-238: any cached saying of the system is served, or the request
\* goes on to the access check
HAnyCached ==
  /\ req.pc = "any"
  /\ \E r \in StorageGetAnyCachedSayings(1) :
       LET c == Called(req, "get_any_cached_sayings", IsOk(r))
       IN req' = IF Serves(r) THEN Respond(c, "200", "any", Val(r)[1])
                 ELSE AccessCheck(c)
  /\ UNCHANGED <<now, config, rlVars, psVars, stVars, persona, admits, caVars>>

\* lines 243-245: the request carries its own prompt
HResolvePrompt ==
  /\ req.pc = "resolve"
  /\ req.prompt # None
  /\ req' = [req EXCEPT !.pc = "check", !.user_prompt = Unwrap(req.prompt),
                        !.preset_id = None]
  /\ UNCHANGED <<now, config, rlVars, psVars, stVars, persona, admits, caVars>>

\* lines 248-256: the request names a preset
HResolvePreset ==
  /\ req.pc = "resolve"
  /\ req.prompt = None /\ req.preset # None
  /\ LET c == Called(req, "get_preset_by_id", TRUE)
     IN IF GetPresetById(Unwrap(req.preset)) = None
          THEN req' = Fail(c, "BadRequest", "preset")
          ELSE \E p \in RandomUserPrompt(Unwrap(req.preset)) :
                 req' = [Called(c, "random_user_prompt", TRUE) EXCEPT
                           !.pc = "check", !.user_prompt = p, !.preset_id = req.preset]
  /\ UNCHANGED <<now, config, rlVars, psVars, stVars, persona, admits, caVars>>

\* lines 259-262: neither prompt nor preset: get_limit_info
HResolveDefault ==
  /\ req.pc = "resolve"
  /\ req.prompt = None /\ req.preset = None
  /\ req' = [Called(req, "get_limit_info", TRUE) EXCEPT
               !.info = store[req.user],
               !.pc = IF store[req.user] = None THEN "reset" ELSE "select"]
  /\ UNCHANGED <<now, config, rlVars, psVars, stVars, persona, admits, caVars>>

\* lines 264-267: the user has no window: reset; a reset that panics takes the
\* request with it and leaves the Mutex of the store poisoned
HReset ==
  /\ req.pc = "reset"
  /\ IF WindowEndPanics(now)
       THEN /\ store_lock' = Poisoned
            /\ req' = Fail(Called(req, "reset", FALSE), "Panic", "panic")
            /\ UNCHANGED <<store, quota>>
       ELSE /\ store' = [store EXCEPT ![req.user] = Some(ResetInfo(req.user, now))]
            /\ quota' = [quota EXCEPT ![req.user] = [checks |-> 0, grants |-> 0]]
            /\ req' = [Called(req, "reset", TRUE) EXCEPT !.pc = "reget"]
            /\ UNCHANGED store_lock
  /\ UNCHANGED <<now, config, pc, frame, psVars, stVars, persona, admits, caVars>>

\* lines 269-271: get_limit_info again, .ok_or_else(InternalError)?
HReget ==
  /\ req.pc = "reget"
  /\ LET c == Called(req, "get_limit_info", TRUE)
     IN req' = IF store[req.user] = None
                 THEN Fail(c, "InternalError", "reget")
                 ELSE [c EXCEPT !.info = store[req.user], !.pc = "select"]
  /\ UNCHANGED <<now, config, rlVars, psVars, stVars, persona, admits, caVars>>

\* lines 275-281: get_or_select_preset(user_id, rate_limit_info.reset_at) and
\* random_user_prompt
HSelect ==
  /\ req.pc = "select"
  /\ LET u == req.user
         reset_at == Unwrap(req.info).reset_at
         c == Called(req, "get_or_select_preset", TRUE)
     IN \E drawn \in Draws :
          LET d == SelectDecision(selections[u], reset_at, now, drawn)
          IN /\ selections' = IF d.insert # None
                                THEN [selections EXCEPT ![u] = d.insert]
                                ELSE selections
             /\ sel_call' = [user |-> u, reset_at |-> reset_at, ret |-> d.ret,
                             branch |-> d.branch, n |-> 1 - sel_call.n]
             /\ IF d.ret = None
                  THEN req' = Fail(c, "InternalError", "select")
                  ELSE \E p \in RandomUserPrompt(Unwrap(d.ret).id) :
                         req' = [Called(c, "random_user_prompt", TRUE) EXCEPT
                                   !.pc = "check", !.user_prompt = p,
                                   !.preset_id = Some(Unwrap(d.ret).id)]
  /\ UNCHANGED <<now, config, rlVars, presets, stVars, persona, admits, caVars>>

\* a handler that goes on whatever check returned
AfterCheckAlways(can_proceed) == "find"

\* lines 304-306: where the request goes after check returned
AfterCheck(can_proceed) == IF can_proceed THEN "find" ELSE "done"

\* lines 301-306: rate_limiter.check(&user_id); a check that panics takes the
\* request with it and leaves the Mutex of the store poisoned
HCheck ==
  /\ req.pc = "check"
  /\ LET u == req.user
         d == CheckDecision(u, store[u], now)
         default == req.prompt = None /\ req.preset = None
         c == [Called(req, "check", TRUE) EXCEPT
                 !.can_proceed = Some(d.ret), !.window = d.info.reset_at]
     IN IF CheckPanicsOn(u, store[u], now)
          THEN /\ store_lock' = Poisoned
               /\ req' = Fail(Called(req, "check", FALSE), "Panic", "panic")
               /\ UNCHANGED <<store, quota, persona>>
          ELSE /\ store' = IF d.write THEN [store EXCEPT ![u] = Some(d.info)] ELSE store
               /\ quota' = [quota EXCEPT ![u] = QuotaAfterCheck(u, now, d.ret)]
               /\ persona' = IF d.ret /\ default
                               THEN [persona EXCEPT
                                       ![u] = Some([reset_at |-> d.info.reset_at,
                                                    preset_id |-> req.preset_id])]
                               ELSE persona
               /\ req' = IF AfterCheck(d.ret) = "find"
                           THEN [c EXCEPT !.pc = "find", !.prev = persona[u]]
                           ELSE Fail(c, "RateLimited", "denied")
               /\ UNCHANGED store_lock
  /\ UNCHANGED <<now, config, pc, frame, psVars, stVars, admits, caVars>>

\* lines 309-310: find_cached_saying(..).await.map_err(InternalError)?
FindResult(r) == r

\* lines 320-337: the cached saying is served only when the draw said so
UseCached(cached, use_llm) == cached # None /\ ~use_llm

\* lines 309-337: find_cached_saying, the 70/30 draw, and the choice between
\* the cached saying and the LLM
HFind ==
  /\ req.pc = "find"
  /\ \E found \in StorageFindCachedSaying(req.user_prompt, req.preset_id),
        use_llm \in BOOLEAN :
       LET c == Called(req, "find_cached_saying", IsOk(found))
           r == FindResult(found)
       IN req' = IF ~IsOk(r) THEN Fail(c, "InternalError", "find")
                 ELSE IF UseCached(Val(r), use_llm)
                   THEN [c EXCEPT !.pc = "save", !.saying = Val(r), !.path = "cache"]
                   ELSE [c EXCEPT !.pc = "llm"]
  /\ UNCHANGED <<now, config, rlVars, psVars, stVars, persona, admits, caVars>>

\* a generator whose failure is papered over with an empty saying
FetchFromLlmFallback(ok, id, user_prompt, t, preset_id) ==
  Ok(Saying(id, user_prompt, t, "LLM", preset_id))

\* fetch_from_llm, lines 355-374: OpenRouter answers (openrouter.rs lines
\* 123-131: a new saying, source LLM, created now), and preset_id is set; or
\* it fails
FetchFromLlm(ok, id, user_prompt, t, preset_id) ==
  IF ok THEN Ok(Saying(id, user_prompt, t, "LLM", preset_id)) ELSE Err

\* lines 329 and 335: fetch_from_llm(..).await?
HLlm ==
  /\ req.pc = "llm"
  /\ \E ok \in BOOLEAN :
       LET c == [Called(req, "fetch_from_llm", TRUE) EXCEPT !.llm = Some(ok)]
           r == FetchFromLlm(ok, admits, req.user_prompt, now, req.preset_id)
       IN req' = IF IsOk(r)
                   THEN [c EXCEPT !.pc = "save", !.path = "llm", !.saying = Some(Val(r))]
                   ELSE Fail(c, "OpenRouterError", "llm")
  /\ UNCHANGED <<now, config, rlVars, psVars, stVars, persona, admits, caVars>>

\* a write-back whose failure fails the request
SaveStatusStrict(result) == IF IsOk(result) THEN "201" ELSE "InternalError"

\* lines 340-351: the outcome of save_saying is logged, the status is CREATED
SaveStatus(result) == "201"

\* lines 340-351: save_saying, then 201 with the saying
HSave ==
  /\ req.pc = "save"
  /\ \E o \in StorageSaveSaying(req.user, Unwrap(req.saying)) :
       LET c == Called(req, "save_saying", IsOk(o.result))
           status == SaveStatus(o.result)
       IN /\ sayings' = o.sayings
          /\ global_cache' = o.global_cache
          /\ db' = o.db
          /\ log' = IF o.wrote THEN Append(log, <<req.user, Unwrap(req.saying)>>) ELSE log
          /\ req' = IF status = "201"
                      THEN Respond(c, "201", req.path, Unwrap(req.saying))
                      ELSE Fail(c, status, req.path)
  /\ UNCHANGED <<now, config, rlVars, psVars, st_call, storage, held, mlVars, persona, admits, caVars>>

\* get_user_status, lines 377-405: is_user_allowed(&user_id)? (line 382), then
\* get_limit_info under the RateLimiter's Mutex (line 385); without a window
\* the default preset is reported (lines 389-405), with one the request goes
\* on to get_last_saying
HStatus(u) ==
  /\ req.pc \in {"idle", "done"}
  /\ admits < MaxAdmits
  /\ admits' = admits + 1
  /\ LET arrived == [IdleReq EXCEPT !.handler = "get_user_status", !.user = u]
         r == Called(arrived, "get_limit_info", TRUE)
     IN req' = IF ~IsUserAllowed(u)
                 THEN Fail(arrived, "AccessDenied", "forbidden")
                 ELSE IF store_lock = Poisoned
                 THEN Fail(r, "Panic", "panic")
                 ELSE IF store[u] = None
                   THEN [Called(r, "get_default_preset", TRUE) EXCEPT
                           !.pc = "done", !.status = "200", !.path = "status"]
                   ELSE [r EXCEPT !.info = store[u], !.pc = "status_last"]
  /\ UNCHANGED <<now, config, rlVars, psVars, stVars, persona, caVars>>

\* get_user_status, lines 410-424: get_last_saying (line 411), a call of its
\* own on the storage, whose failure counts as no saying (.ok(), line 412); when
\* rate_limit_info.remaining_requests > 0 the request goes on to
\* get_or_select_preset, else it responds without a preset
HStatusLast ==
  /\ req.pc = "status_last"
  /\ \E r \in StorageGetLastSaying(req.user) :
       LET c == Called(req, "get_last_saying", IsOk(r))
       IN req' = IF U32Less(U32(0), Unwrap(req.info).remaining_requests)
                   THEN [c EXCEPT !.pc = "status"]
                   ELSE [c EXCEPT !.pc = "done", !.status = "200", !.path = "status"]
  /\ UNCHANGED <<now, config, rlVars, psVars, stVars, persona, admits, caVars>>

\* get_user_status, lines 416-436: get_or_select_preset(user_id,
\* rate_limit_info.reset_at), whose failure is logged; the response
HStatusSelect ==
  /\ req.pc = "status"
  /\ LET u == req.user
         reset_at == Unwrap(req.info).reset_at
     IN \E drawn \in Draws :
          LET d == SelectDecision(selections[u], reset_at, now, drawn)
          IN /\ selections' = IF d.insert # None
                                THEN [selections EXCEPT ![u] = d.insert]
                                ELSE selections
             /\ sel_call' = [user |-> u, reset_at |-> reset_at, ret |-> d.ret,
                             branch |-> d.branch, n |-> 1 - sel_call.n]
             /\ req' = [Called(req, "get_or_select_preset", d.ret # None) EXCEPT
                          !.pc = "done", !.status = "200", !.path = "status"]
  /\ UNCHANGED <<now, config, rlVars, presets, stVars, persona, admits, caVars>>

\* a thread that serves no request.  pc: "idle"; "last" (before line 214);
\* "any" (220); "resolve" (241); "reset" (266); "reget" (270); "select" (275);
\* "check" (301); "find" (309); "llm" (329, 335: the answer of OpenRouter is
\* awaited); "save" (340); "done".  ord: the ordinal of the request, which
\* stands for the uuid of the saying generated for it
IdleTask ==
  [ord |-> 0,
   pc |-> "idle", user |-> "-", prompt |-> None, preset |-> None, info |-> None,
   user_prompt |-> "-", preset_id |-> None, can_proceed |-> None, saying |-> None,
   status |-> "-"]

\* the request of thread t goes on at position p
TaskAt(t, p) == [task EXCEPT ![t].pc = p]

\* the request of thread t returns
TaskDone(t, status) == [task EXCEPT ![t].pc = "done", ![t].status = status]

\* lines 196-207: a request arrives at thread t; get_limit_info is read under
\* the RateLimiter's Mutex
CaStart(t, u, prompt, preset) ==
  /\ task[t].pc \in {"idle", "done"}
  /\ admits < MaxAdmits
  /\ admits' = admits + 1
  /\ task' = [task EXCEPT ![t] =
       [IdleTask EXCEPT !.pc = IF store_lock = Poisoned THEN "done"
                               ELSE IF IsRateLimited(store[u], now) THEN "last"
                               ELSE IF IsUserAllowed(u) THEN "resolve"
                               ELSE "done",
                        !.status = IF store_lock = Poisoned THEN "Panic"
                                   ELSE IF IsRateLimited(store[u], now) \/ IsUserAllowed(u)
                                     THEN "-"
                                   ELSE "AccessDenied",
                        !.ord = admits + 1,
                        !.user = u, !.prompt = prompt, !.preset = preset]]
  /\ UNCHANGED <<now, config, rlVars, psVars, stVars, req, persona, granted>>

\* lines 214-217: get_last_saying under the sayings Mutex
CaLastSaying(t) ==
  /\ task[t].pc = "last"
  /\ task' = IF MemGetLastSaying(task[t].user) # None
               THEN [TaskDone(t, "200") EXCEPT ![t].saying = MemGetLastSaying(task[t].user)]
               ELSE TaskAt(t, "any")
  /\ UNCHANGED <<now, config, rlVars, psVars, stVars, req, persona, admits, granted>>

\* lines 220-234: get_any_cached_sayings(1)
CaAnyCached(t) ==
  /\ task[t].pc = "any"
  /\ \E list \in MemGetAnyCachedSayings(1) :
       task' = IF list # <<>>
                 THEN [TaskDone(t, "200") EXCEPT ![t].saying = Some(list[1])]
                 ELSE IF IsUserAllowed(task[t].user) THEN TaskAt(t, "resolve")
                 ELSE TaskDone(t, "AccessDenied")
  /\ UNCHANGED <<now, config, rlVars, psVars, stVars, req, persona, admits, granted>>

\* lines 241-264: a request with a prompt goes to check; one with neither
\* prompt nor preset reads get_limit_info (line 261) and goes to reset when
\* the user has no window
CaResolve(t) ==
  /\ task[t].pc = "resolve"
  /\ task[t].preset = None
  /\ task' = IF task[t].prompt # None
               THEN [task EXCEPT ![t].pc = "check",
                                 ![t].user_prompt = Unwrap(task[t].prompt)]
               ELSE IF store_lock = Poisoned THEN TaskDone(t, "Panic")
               ELSE IF store[task[t].user] = None THEN TaskAt(t, "reset")
               ELSE [task EXCEPT ![t].pc = "select", ![t].info = store[task[t].user]]
  /\ UNCHANGED <<now, config, rlVars, psVars, stVars, req, persona, admits, granted>>

\* line 266: rate_limiter.reset(&user_id)
CaReset(t) ==
  /\ task[t].pc = "reset"
  /\ IF store_lock = Poisoned \/ WindowEndPanics(now)
       THEN /\ store_lock' = Poisoned
            /\ task' = TaskDone(t, "Panic")
            /\ UNCHANGED store
       ELSE /\ store' = [store EXCEPT ![task[t].user] = Some(ResetInfo(task[t].user, now))]
            /\ task' = TaskAt(t, "reget")
            /\ UNCHANGED store_lock
  /\ UNCHANGED <<now, config, pc, frame, quota, psVars, stVars, req,
                 persona, admits, granted>>

\* line 270: get_limit_info after reset
CaReget(t) ==
  /\ task[t].pc = "reget"
  /\ task' = IF store_lock = Poisoned THEN TaskDone(t, "Panic")
               ELSE IF store[task[t].user] = None THEN TaskDone(t, "InternalError")
               ELSE [task EXCEPT ![t].pc = "select", ![t].info = store[task[t].user]]
  /\ UNCHANGED <<now, config, rlVars, psVars, stVars, req, persona, admits, granted>>

\* lines 275-279: get_or_select_preset(user_id, rate_limit_info.reset_at) under
\* the selections Mutex, and random_user_prompt
CaSelect(t) ==
  /\ task[t].pc = "select"
  /\ LET u == task[t].user
         reset_at == Unwrap(task[t].info).reset_at
     IN \E drawn \in Draws :
          LET d == SelectDecision(selections[u], reset_at, now, drawn)
          IN /\ selections' = IF d.insert # None
                                THEN [selections EXCEPT ![u] = d.insert]
                                ELSE selections
             /\ IF d.ret = None
                  THEN task' = TaskDone(t, "InternalError")
                  ELSE \E p \in RandomUserPrompt(Unwrap(d.ret).id) :
                         task' = [task EXCEPT ![t].pc = "check", ![t].user_prompt = p,
                                              ![t].preset_id = Some(Unwrap(d.ret).id)]
  /\ UNCHANGED <<now, config, rlVars, presets, sel_call, stVars, req, persona,
                 admits, granted>>

\* lines 301-306: rate_limiter.check(&user_id), the whole call under the
\* Mutex; a check that panics, or that finds the Mutex poisoned, takes the
\* request with it
CaCheck(t) ==
  /\ task[t].pc = "check"
  /\ LET u == task[t].user
         d == CheckDecision(u, store[u], now)
     IN IF store_lock = Poisoned \/ CheckPanicsOn(u, store[u], now)
          THEN /\ store_lock' = Poisoned
               /\ task' = TaskDone(t, "Panic")
               /\ UNCHANGED <<store, granted>>
          ELSE /\ store' = IF d.write THEN [store EXCEPT ![u] = Some(d.info)] ELSE store
               /\ granted' = IF d.ret
                               THEN Append(granted, [user |-> u, at |-> now,
                                                     reset_at |-> d.info.reset_at])
                               ELSE granted
               /\ task' = IF AfterCheck(d.ret) = "find"
                            THEN [task EXCEPT ![t].pc = "find",
                                              ![t].can_proceed = Some(d.ret)]
                            ELSE [TaskDone(t, "RateLimited") EXCEPT
                                    ![t].can_proceed = Some(d.ret)]
               /\ UNCHANGED store_lock
  /\ UNCHANGED <<now, config, pc, frame, quota, psVars, stVars, req, persona, admits>>

\* lines 309-337: find_cached_saying and the 70/30 draw: the cached saying is
\* served, or OpenRouter is asked
CaFind(t) ==
  /\ task[t].pc = "find"
  /\ \E found \in MemFindCachedSaying(task[t].user_prompt, task[t].preset_id),
        use_llm \in BOOLEAN :
       task' = IF UseCached(found, use_llm)
                 THEN [task EXCEPT ![t].pc = "save", ![t].saying = found]
                 ELSE TaskAt(t, "llm")
  /\ UNCHANGED <<now, config, rlVars, psVars, stVars, req, persona, admits, granted>>

\* lines 329 and 335: OpenRouter answers or fails; the saying is created when
\* the answer is there (openrouter.rs lines 123-131)
CaLlm(t) ==
  /\ task[t].pc = "llm"
  /\ \E ok \in BOOLEAN :
       LET r == FetchFromLlm(ok, task[t].ord, task[t].user_prompt, now, task[t].preset_id)
       IN task' = IF IsOk(r)
                    THEN [task EXCEPT ![t].pc = "save", ![t].saying = Some(Val(r))]
                    ELSE TaskDone(t, "OpenRouterError")
  /\ UNCHANGED <<now, config, rlVars, psVars, stVars, req, persona, admits, granted>>

\* lines 340-351: save_saying on MemoryStorage, then 201
CaSave(t) ==
  /\ task[t].pc = "save"
  /\ LET m == MemSaveSaying(task[t].user, Unwrap(task[t].saying))
     IN /\ sayings' = m.sayings
        /\ global_cache' = m.global_cache
  /\ log' = Append(log, <<task[t].user, Unwrap(task[t].saying)>>)
  /\ task' = TaskDone(t, "201")
  /\ UNCHANGED <<now, config, rlVars, psVars, db, st_call, storage, held, mlVars, req,
                 persona, admits, granted>>

HInit ==
  /\ req = IdleReq
  /\ persona = [u \in UserIds |-> None]
  /\ admits = 0
  /\ task = [t \in Threads |-> IdleTask]
  /\ granted = <<>>

\* line 21: HashMap::new()
NewStore == [u \in UserIds |-> None]

\* main.rs lines 39-52 and 100-107, under cfg(debug_assertions): before the
\* server listens, initialize_test_user calls rate_limiter.reset(TEST_USER_ID)
\* on the new store.  The panic of that reset (rate_limiter.rs line 77) ends
\* main: the service never listens, and there is no store to start from.  A
\* release build leaves the store empty.  The stores a service starts with
InitializeTestUser ==
  IF ~OverflowChecks THEN {NewStore}
  ELSE IF WindowEndPanics(0) THEN {}
  ELSE {[NewStore EXCEPT ![TestUserId] = Some(ResetInfo(TestUserId, 0))]}

RlInit(entries) ==
  /\ store = entries
  /\ store_lock = None
  /\ pc = [t \in Threads |-> "idle"]
  /\ frame = [t \in Threads |-> IdleFrame]
  /\ quota = [u \in UserIds |-> [checks |-> 0, grants |-> 0]]

\* main.rs lines 83-98: the AppState a service starts with, built on one of
\* the catalogs and one of the storage configurations
AppState(entries, catalogs, storages) ==
  /\ now = 0
  /\ RlInit(entries)
  /\ PsInit(catalogs)
  /\ StInit
  /\ BackendInit(storages)
  /\ HInit

\* the values of RATE_LIMIT_WINDOW_SECONDS that lie beyond the clock:
\* 8210266876799, with which now + Duration is MAX_UTC at the instant 0 and
\* leaves the range of DateTime at every later instant; 10^13, with which it
\* leaves the range at every instant; i64::MAX, which Duration::seconds
\* refuses; u64::MAX, which the cast turns into -1
LongWindows ==
  {MaxUtc, <<0, 2328, 20082, 40960>>, <<Half \div 2 - 1, Half - 1, Half - 1, Half - 1>>,
   <<Half - 1, Half - 1, Half - 1, Half - 1>>}

\* Config::from_env, config.rs lines 60-75: any u32 and any u64 are accepted;
\* the window lengths are those within the clock and those beyond it.
\* For the RateLimiter the profile of the build shows only in max_requests - 1
\* with max_requests = 0 (the subtraction of line 47 is guarded by
\* remaining_requests > 0): for the other values the two builds behave alike
\* and the one without overflow checks is followed
ConfigInit ==
  config \in {c \in [max_requests : 0..MaxRequests,
                     window_seconds : {U64(w) : w \in 0..MaxWindow} \cup LongWindows,
                     overflow_checks : BOOLEAN] :
                c.overflow_checks => c.max_requests = 0}

\* ---------------------------------------------- specification: RateLimiter
InitLimiter ==
  /\ ConfigInit
  /\ AppState(NewStore, {<<>>}, {MemoryConfig})

\* the counter of u is within max_requests, or a wrapped one that has been
\* consumed at most MaxWrapped times: the grants of a wrapped window that
\* are followed
WithinWrapped(u) ==
  \/ store[u] = None
  \/ U32AtMost(Unwrap(store[u]).remaining_requests, U32(config.max_requests))
  \/ U32AtMost(WrappingSub(U32Max, MaxWrapped), Unwrap(store[u]).remaining_requests)

NextLimiter ==
  \/ Tick
  \/ \E t \in Threads, u \in Users : RlLock(t, "check", u) /\ WithinWrapped(u)
  \/ \E t \in Threads, u \in Users : RlLockPoisoned(t, "check", u)
  \/ \E t \in Threads : RlCheckGet(t)
  \/ \E t \in Threads : RlCheckDecide(t)
  \/ \E t \in Threads : RlCheckPanic(t)

SpecLimiter == InitLimiter /\ [][NextLimiter]_vars

\* the user of the specifications that follow one user
OpsUser == "u1"

\* ------------------------------ specification: the RateLimiter's counter
\* check called by two threads for one user
NextCounter ==
  \/ Tick
  \/ \E t \in Threads : RlLock(t, "check", OpsUser) /\ WithinWrapped(OpsUser)
  \/ \E t \in Threads : RlLockPoisoned(t, "check", OpsUser)
  \/ \E t \in Threads : RlCheckGet(t)
  \/ \E t \in Threads : RlCheckDecide(t)
  \/ \E t \in Threads : RlCheckPanic(t)

SpecCounter == InitLimiter /\ [][NextCounter]_vars

\* ------------------------------ specification: the RateLimiter's operations
\* check, reset and get_limit_info called by two threads for one user, and
\* check for the other
LimiterOps == {"check", "reset", "get_limit_info"}

NextLimiterOps ==
  \/ Tick
  \/ \E t \in Threads, op \in LimiterOps : RlLock(t, op, OpsUser) /\ WithinWrapped(OpsUser)
  \/ \E t \in Threads, u \in Users \ {OpsUser} : RlLock(t, "check", u) /\ WithinWrapped(u)
  \/ \E t \in Threads, op \in LimiterOps, u \in Users : RlLockPoisoned(t, op, u)
  \/ \E t \in Threads : RlCheckGet(t)
  \/ \E t \in Threads : RlCheckDecide(t)
  \/ \E t \in Threads : RlCheckPanic(t)
  \/ \E t \in Threads : RlReset(t)
  \/ \E t \in Threads : RlResetPanic(t)
  \/ \E t \in Threads : RlGetLimitInfo(t)

SpecLimiterOps == InitLimiter /\ [][NextLimiterOps]_vars

\* -------------------------------------------------- specification: Presets
\* the reset_at a caller may pass: any instant, past or future
ResetAts == 0..MaxTime

InitPreset ==
  /\ config = [max_requests |-> 1, window_seconds |-> U64(1), overflow_checks |-> FALSE]
  /\ AppState(NewStore, Catalogs, {MemoryConfig})

NextPreset ==
  \/ Tick
  \/ \E u \in Users, reset_at \in ResetAts : GetOrSelectPreset(u, reset_at)

SpecPreset == InitPreset /\ [][NextPreset]_vars

\* -------------------------------------------------- specification: Storage
InitStore ==
  /\ config = [max_requests |-> 1, window_seconds |-> U64(1), overflow_checks |-> FALSE]
  /\ AppState(NewStore, {<<>>}, {MemoryConfig})

NextStore ==
  \/ \E u \in Users, key \in SavedKeys, source \in SavedSources :
       StSaveNew(u, key, source, Len(log))
  \/ \E prompt \in Prompts, preset_id \in PresetRefs : StFind(prompt, preset_id)
  \/ \E prompt \in Prompts, preset_id \in PresetRefs : StFindCached(prompt, preset_id)
  \/ \E u \in Users : StSaveFound(u)

SpecStore == InitStore /\ [][NextStore]_vars

\* ------------------------------------- specification: the two backends
\* the same calls are made on MemoryStorage and on SledStorage; each saying
\* is created after the ones saved before
NextBoth ==
  \/ \E u \in Users, key \in SavedKeys, source \in SavedSources :
       StSaveWithin(MaxBoth, u, Saying(Len(log) + 1, key.prompt, Len(log), source,
                                       key.preset_id))
  \/ \E prompt \in Prompts, preset_id \in PresetRefs : StFind(prompt, preset_id)
  \/ \E u \in Users : StLast(u)
  \/ \E u \in Users, limit \in Limits : StHistory(u, limit)
  \/ \E limit \in Limits : StAny(limit)

SpecBoth == InitStore /\ [][NextBoth]_vars

\* ------------------------------------ specification: the user's history
\* sayings are saved with created_at in any order, equal ones included, found
\* sayings are saved again, and the history is read on both backends
NextReads ==
  \/ \E u \in Users, source \in SavedSources, created_at \in Stamps :
       StSaveNew(u, ReadKey, source, created_at)
  \/ StFindCached(ReadKey.prompt, ReadKey.preset_id)
  \/ \E u \in Users : StSaveFound(u)
  \/ \E u \in Users : StLast(u)
  \/ \E u \in Users, limit \in Limits : StHistory(u, limit)

SpecReads == InitStore /\ [][NextReads]_vars

\* ------------------------- specification: MemoryStorage under concurrency
\* two threads call save_saying, find_cached_saying and get_any_cached_sayings
\* on one MemoryStorage; each call takes its Mutexes in the order of its code
NextMemLocks ==
  \/ \E t \in Threads, u \in Users, key \in SavedKeys, source \in SavedSources :
       MlSavePush(t, u, Saying(Len(log) + 1, key.prompt, Len(log), source, key.preset_id))
  \/ \E t \in Threads : MlSaveCache(t)
  \/ \E t \in Threads, prompt \in Prompts, preset_id \in PresetRefs :
       MlFindLookup(t, prompt, preset_id)
  \/ \E t \in Threads : MlFindScan(t)
  \/ \E t \in Threads, limit \in Limits : MlAnyCollect(t, limit)
  \/ \E t \in Threads : MlAnyScan(t)

SpecMemLocks == InitStore /\ [][NextMemLocks]_vars

\* -------------------------------- specification: concurrent save_saying
\* two threads save sayings of one user at once, on MemoryStorage and on
\* SledStorage
NextConcurrentSave ==
  \/ \E t \in Threads, key \in SavedKeys, source \in SavedSources :
       MlSavePush(t, OpsUser, Saying(Len(log) + 1, key.prompt, Len(log), source,
                                     key.preset_id))
  \/ \E t \in Threads : MlSaveCache(t)
  \/ \E t \in Threads, key \in SavedKeys, source \in SavedSources :
       SlSaveRead(t, OpsUser, Saying(SledStarted + 1, key.prompt, SledStarted, source,
                                     key.preset_id))
  \/ \E t \in Threads : SlSaveWrite(t)
  \/ \E t \in Threads : SlSaveCache(t)
  \/ \E t \in Threads : SlSaveFail(t)

SpecConcurrentSave == InitStore /\ [][NextConcurrentSave]_vars

\* ------------------------------------------------ specification: Storage::new
\* every StorageConfig, with sled opening or failing to open
InitBackend ==
  /\ config = [max_requests |-> 1, window_seconds |-> U64(1), overflow_checks |-> FALSE]
  /\ AppState(NewStore, {<<>>}, StorageConfigs)

\* the (preset_id, prompt) pairs saved through Storage: with and without preset
BackendKeys == {CacheKey(None, "P"), CacheKey(Some("oracle"), "P")}

NextBackend ==
  \/ \E u \in Users, key \in BackendKeys, source \in SavedSources : BkSave(u, key, source)
  \/ \E u \in Users : BkLast(u)
  \/ \E u \in Users, limit \in Limits : BkHistory(u, limit)
  \/ \E prompt \in Prompts, preset_id \in PresetRefs : BkFind(prompt, preset_id)
  \/ \E limit \in Limits : BkAny(limit)

SpecBackend == InitBackend /\ [][NextBackend]_vars

\* -------------------------------------------- specification: create_saying
\* the configurations of Config::from_env (config.rs lines 60-75) followed
\* through the handlers. max_requests = 0: the first granted check computes
\* 0 - 1 (rate_limiter.rs line 61), which aborts in a build with overflow
\* checks and wraps in one without; max_requests = 1: every window is
\* exhausted by its first request; window_seconds = 0: a window is over at
\* the instant it starts; the windows beyond the clock: a reset or a check
\* that opens a window aborts, from some instant on or at every instant, or
\* the window is over before it starts.  Each in a build of the dev profile
\* and in one of the release profile
HandlerConfigs ==
  [max_requests : {0}, window_seconds : {U64(1)}, overflow_checks : BOOLEAN]
    \cup [max_requests : {1}, window_seconds : {U64(0), U64(1)} \cup LongWindows,
          overflow_checks : BOOLEAN]

\* NextHandler and NextSeeded draw no request of the test user, and for the
\* other users the profile of the build shows only in max_requests - 1 with
\* max_requests = 0: for the other configurations the two builds behave alike
\* and the release build is followed
InitHandler ==
  /\ config \in {c \in HandlerConfigs : c.overflow_checks => c.max_requests = 0}
  /\ \E entries \in InitializeTestUser :
       AppState(entries, {<<Preset("oracle"), Preset("sage")>>}, {MemoryConfig})

\* the same service on the durable backend, where storage operations can
\* fail; with max_requests = 2 a window takes a second request
InitHandlerSled ==
  /\ config \in [max_requests : {1, 2}, window_seconds : {U64(1)}, overflow_checks : {FALSE}]
  /\ \E entries \in InitializeTestUser :
       AppState(entries, {<<Preset("oracle"), Preset("sage")>>, <<Preset("oracle"), SecondOracle>>}, {SledConfig})

\* the steps of a request after it arrived
HSteps ==
  \/ HLastSaying
  \/ HAnyCached
  \/ HResolvePrompt
  \/ HResolvePreset
  \/ HResolveDefault
  \/ HReset
  \/ HReget
  \/ HSelect
  \/ HCheck
  \/ HFind
  \/ HLlm
  \/ HSave

\* MemoryStorage, the RateLimiter and the Presets treat every user id alike,
\* and so do the handlers but for the test user: of u1 and __u2, the first to
\* send a request is taken to be u1
FirstIsU1(u) == admits > 0 \/ u # "__u2"

\* the requests of the users other than the test user
NextHandler ==
  \/ Tick
  \/ \E u \in Users, payload \in Requests :
       FirstIsU1(u) /\ HStart(u, payload.prompt, payload.preset_id)
  \/ \E u \in Users : FirstIsU1(u) /\ HStatus(u)
  \/ HStatusLast
  \/ HStatusSelect
  \/ HSteps

SpecHandler == InitHandler /\ [][NextHandler]_vars

\* ---------------------------- specification: create_saying in cooldown
\* requests that carry their own prompt, with max_requests = 1, so that the
\* second request of a user in a window meets the cooldown branch; followed
\* for MaxCooldown requests, of every user id, the test user's too, in a
\* release build and in a dev build, with a window of one second and with
\* the window that ends at MAX_UTC
MaxCooldown == 3

InitCooldown ==
  /\ config \in {c \in HandlerConfigs :
                   c.max_requests = 1 /\ c.window_seconds \in {U64(1), MaxUtc}}
  /\ \E entries \in InitializeTestUser :
       AppState(entries, {<<Preset("sage")>>}, {MemoryConfig})

NextCooldown ==
  \/ Tick
  \/ \E u \in UserIds : FirstIsU1(u) /\ HStartAt(u, Some("P"), None, MaxCooldown)
  \/ \E u \in UserIds : FirstIsU1(u) /\ HStatus(u)
  \/ HStatusLast
  \/ HStatusSelect
  \/ HLastSaying
  \/ HAnyCached
  \/ HResolvePrompt
  \/ HCheck
  \/ HFind
  \/ HLlm
  \/ HSave

SpecCooldown == InitCooldown /\ [][NextCooldown]_vars

\* ---------------------------- specification: create_saying over a seeded store
\* requests that carry their own prompt, on a store on which another caller
\* of Storage::save_saying has saved a Cache saying under the same key, as the
\* tests of storage.rs do (lines 496-507): find_cached_saying can hit
SeedSaying == Saying(0, "P", 0, "Cache", None)

NextSeeded ==
  \/ Tick
  \/ \E u \in Users : HStart(u, Some("P"), None)
  \/ StSaveWithin(1, "u1", SeedSaying)
  \/ HLastSaying
  \/ HAnyCached
  \/ HResolvePrompt
  \/ HCheck
  \/ HFind
  \/ HLlm
  \/ HSave

SpecSeeded == InitHandler /\ [][NextSeeded]_vars

\* ---------------------------- specification: concurrent create_saying
\* two threads serve requests of one user at once; every call on the
\* RateLimiter, the Presets and the MemoryStorage is one step, taken under
\* that component's Mutex
ConcurrentPayloads ==
  {[prompt |-> Some("P"), preset_id |-> None], [prompt |-> None, preset_id |-> None]}

InitConcurrent ==
  /\ config \in HandlerConfigs
  /\ \E entries \in InitializeTestUser :
       AppState(entries, {<<Preset("sage")>>}, {MemoryConfig})

NextConcurrent ==
  \/ Tick
  \/ \E t \in Threads, payload \in ConcurrentPayloads :
       CaStart(t, OpsUser, payload.prompt, payload.preset_id)
  \/ \E t \in Threads : CaStart(t, TestUserId, Some("P"), None)
  \/ \E t \in Threads : CaLastSaying(t)
  \/ \E t \in Threads : CaAnyCached(t)
  \/ \E t \in Threads : CaResolve(t)
  \/ \E t \in Threads : CaReset(t)
  \/ \E t \in Threads : CaReget(t)
  \/ \E t \in Threads : CaSelect(t)
  \/ \E t \in Threads : CaCheck(t)
  \/ \E t \in Threads : CaFind(t)
  \/ \E t \in Threads : CaLlm(t)
  \/ \E t \in Threads : CaSave(t)

SpecConcurrent == InitConcurrent /\ [][NextConcurrent]_vars

\* the durable backend serves one client
NextHandlerSled ==
  \/ Tick
  \/ \E payload \in Requests : HStart("u1", payload.prompt, payload.preset_id)
  \/ HSteps

SpecHandlerSled == InitHandlerSled /\ [][NextHandlerSled]_vars

\* ------------------------------------------------------ claims: RateLimiter

MaxReq == config.max_requests

\* the call of op for user u by thread t aborts in this step: in a panic of
\* its own or at once, on the poisoned Mutex
Aborts(t, op, u) ==
  /\ pc[t] # "panicked" /\ pc'[t] = "panicked"
  /\ frame'[t].op = op /\ frame'[t].user = u
  /\ frame'[t].ret = None

\* C1: quota counting.  With max_requests >= 1, counting the check calls made
\* on a user since the user's window was opened (the call that opened it
\* included), the N-th call returns true exactly when N <= max_requests, and
\* after N <= max_requests calls the window holds remaining_requests =
\* max_requests - N; from the (max_requests + 1)-th call on the answer is
\* false and remaining stays 0.  No check call aborts, and the window a call
\* opens holds the instant of that call, so that the calls which follow at
\* that instant are inside it.
QuotaCounting ==
  /\ [](MaxReq >= 1 =>
         /\ \A u \in Users :
              store[u] # None =>
                /\ quota[u].checks >= 1
                /\ quota[u].checks <= MaxReq =>
                     Unwrap(store[u]).remaining_requests = U32(MaxReq - quota[u].checks)
                /\ quota[u].checks > MaxReq => Unwrap(store[u]).remaining_requests = U32(0)
         /\ \A t \in Threads :
              (pc[t] = "done" /\ frame[t].op = "check") =>
                frame[t].ret = Some(frame[t].nth <= MaxReq))
  /\ [][MaxReq >= 1 =>
           \A t \in Threads :
             /\ \A u \in Users : ~Aborts(t, "check", u)
             /\ (pc[t] = "decide" /\ pc'[t] = "done"
                   /\ frame'[t].branch \in {"first", "expired"})
                  => ~(frame[t].now > Unwrap(store'[frame[t].user]).reset_at)]_vars

\* C2: check is linearizable per user.  Under every interleaving of the
\* threads, every call granted inside a user's window took exactly one unit
\* from the counter the window started with (the u32 max_requests, by the
\* call that opened the window), so no unit is granted twice; and with
\* max_requests >= 1 the grants never exceed max_requests and remaining stays
\* between 0 and max_requests.
CheckLinearizable ==
  \A u \in Users :
    store[u] # None =>
      /\ Unwrap(store[u]).remaining_requests = WrappingSub(U32(MaxReq), quota[u].grants)
      /\ MaxReq >= 1 =>
           /\ quota[u].grants <= MaxReq
           /\ U32AtMost(Unwrap(store[u]).remaining_requests, U32(MaxReq))

\* two threads called check on the same user while one unit was left: one
\* call took it, the other was refused
CheckLinearizableWitness ==
  \E t1, t2 \in Threads :
    /\ t1 # t2
    /\ pc[t1] = "done" /\ pc[t2] = "done"
    /\ frame[t1].op = "check" /\ frame[t2].op = "check"
    /\ frame[t1].user = frame[t2].user
    /\ frame[t1].info # None /\ frame[t2].info # None
    /\ Unwrap(frame[t1].info).remaining_requests = U32(1)
    /\ frame[t1].ret = Some(TRUE)
    /\ Unwrap(frame[t2].info).remaining_requests = U32(0)
    /\ frame[t2].ret = Some(FALSE)
    /\ frame[t1].now = frame[t2].now

\* the instant t + window_seconds, or None when it lies beyond every instant
\* a window of the model can end at (2^31 seconds and more after t)
NowPlusWindow(t) ==
  LET w == config.window_seconds
  IN IF w[1] = 0 /\ w[2] = 0 /\ w[3] < Half \div 2 THEN Some(t + U64Value(w)) ELSE None

\* C3: window expiry.  A check call that reads the clock after the stored
\* window's reset_at returns true and replaces the window by one with
\* remaining_requests = max_requests - 1 (a number from 0 up) and reset_at =
\* now + window_seconds, whatever the stored remaining_requests was.
WindowExpiry ==
  [][\A t \in Threads :
       ( /\ pc[t] = "decide" /\ pc'[t] # "decide"
         /\ store[frame[t].user] # None
         /\ frame[t].now > Unwrap(store[frame[t].user]).reset_at )
       => /\ pc'[t] = "done"
          /\ frame'[t].ret = Some(TRUE)
          /\ MaxReq >= 1
          /\ NowPlusWindow(frame[t].now) # None
          /\ store'[frame[t].user] =
               Some(RateLimitInfo(frame[t].user, U32(MaxReq - 1),
                                  Unwrap(NowPlusWindow(frame[t].now))))]_vars

\* ---------------------------------------------------------- claims: Presets

\* the step is a get_or_select_preset call for user u
SelectCall(u) == sel_call'.n # sel_call.n /\ sel_call'.user = u

\* the stored selection of u is valid at the current instant
PinLive(u) == selections[u] # None /\ now < Unwrap(selections[u]).expires_at

\* C8: pin stickiness.  While now < expires_at of the user's stored selection,
\* every get_or_select_preset call for the user returns the stored preset and
\* leaves the selection (preset, selected_at, expires_at) as it is, whatever
\* reset_at the caller passes.
PinStickiness ==
  [][\A u \in Users :
       (SelectCall(u) /\ PinLive(u))
       => /\ sel_call'.ret = Some(Unwrap(selections[u]).preset)
          /\ selections' = selections]_vars

\* a call passed a reset_at that differs from the live pin's expires_at and is
\* already in the past, another preset could have been drawn, and the pinned
\* preset came back
PinStickinessWitness ==
  /\ sel_call.branch = "reused"
  /\ Len(presets) = 2
  /\ sel_call.reset_at < now
  /\ sel_call.reset_at # Unwrap(selections[sel_call.user]).expires_at
  /\ sel_call.ret = Some(Unwrap(selections[sel_call.user]).preset)

\* C9 as claimed: whenever the user has no selection or its expires_at is not
\* after now, the call returns a preset of the catalog and stores the selection
\* (that preset, selected_at = now, expires_at = reset_at).
PinReplacement ==
  [][\A u \in Users :
       (SelectCall(u) /\ ~PinLive(u))
       => /\ sel_call'.ret # None
          /\ Unwrap(sel_call'.ret) \in RandomPreset
          /\ selections'[u] =
               Some(PresetSelection(Unwrap(sel_call'.ret), now, sel_call'.reset_at))]_vars

\* C9 amended: the same when the catalog is not empty; with an empty catalog
\* the call fails and stores nothing.  An expired selection is never returned
\* as such: what comes back is the fresh draw.
PinReplacementNonEmpty ==
  [][\A u \in Users :
       (SelectCall(u) /\ ~PinLive(u))
       => IF presets # <<>>
            THEN /\ sel_call'.ret # None
                 /\ Unwrap(sel_call'.ret) \in RandomPreset
                 /\ selections'[u] =
                      Some(PresetSelection(Unwrap(sel_call'.ret), now, sel_call'.reset_at))
                 /\ \A v \in Users \ {u} : selections'[v] = selections[v]
            ELSE /\ sel_call'.ret = None
                 /\ selections' = selections]_vars

\* a call found an expired selection and replaced it by a draw of another preset
PinReplacementWitness ==
  /\ sel_call.branch = "replaced"
  /\ selections[sel_call.user] =
       Some(PresetSelection(Unwrap(sel_call.ret), now, sel_call.reset_at))
  /\ now > 0
  /\ \E v \in Users \ {sel_call.user} :
       /\ selections[v] # None
       /\ Unwrap(selections[v]).preset # Unwrap(sel_call.ret)

\* ---------------------------------------------------------- claims: Storage

\* the sayings handed to save_saying so far
Recorded == {log[i][2] : i \in 1..Len(log)}

\* what find_cached_saying can return on either backend
Found(prompt, preset_id) ==
  MemFindCachedSaying(prompt, preset_id) \cup {SledFindCachedSaying(db, prompt, preset_id)}

\* C5: cache-poisoning prevention.  After any sequence of save_saying calls,
\* find_cached_saying(prompt, preset_id) returns, on both backends, a recorded
\* saying with that prompt and preset_id whose source is not LLM when one was
\* recorded, and None otherwise: an LLM saying is never found, and a Cache
\* saying recorded beside an LLM saying with the same key is.
CachePoisoningPrevention ==
  \A prompt \in Prompts, preset_id \in PresetRefs :
    LET eligible == {s \in Recorded : /\ s.prompt = prompt
                                      /\ s.preset_id = preset_id
                                      /\ s.source # "LLM"}
    IN IF eligible # {}
         THEN \A r \in Found(prompt, preset_id) : r # None /\ Unwrap(r) \in eligible
         ELSE Found(prompt, preset_id) = {None}

\* an LLM saying and a Cache saying with the same key were recorded, in this
\* order or the other, and a find_cached_saying call returned the Cache one
CachePoisoningPreventionWitness ==
  /\ st_call.op = "find"
  /\ st_call.mem # None
  /\ st_call.mem = st_call.sled
  /\ Unwrap(st_call.mem).source = "Cache"
  /\ \E s \in Recorded :
       /\ s.source = "LLM"
       /\ s.prompt = st_call.prompt
       /\ s.preset_id = st_call.preset_id
       /\ s.created_at > Unwrap(st_call.mem).created_at

\* every entry of both global caches is not LLM and sits under its own key
CacheWellFormed ==
  /\ \A k \in DOMAIN global_cache :
       /\ global_cache[k].source # "LLM"
       /\ k = [preset_id |-> global_cache[k].preset_id, prompt |-> global_cache[k].prompt]
  /\ \A k \in DOMAIN db.global_cache :
       LET e == SayingFromJson(db.global_cache[k])
       IN /\ e.source # "LLM"
          /\ k = KeyToJson([preset_id |-> e.preset_id, prompt |-> e.prompt])

\* C6: global-cache invariant.  After every save_saying call each entry of the
\* global cache (in-memory map and sled tree) has a source other than LLM and is
\* stored under CacheKey(entry.preset_id, entry.prompt), and a call that saves
\* an LLM saying leaves the global cache as it was.
GlobalCacheInvariant ==
  [][/\ CacheWellFormed'
     /\ (Len(log') > Len(log) /\ log'[Len(log')][2].source = "LLM")
        => (global_cache' = global_cache /\ db'.global_cache = db.global_cache)]_vars

\* an LLM saying was saved over a global cache that holds another saying under
\* the same key, and that entry is still there
GlobalCacheInvariantWitness ==
  /\ st_call.op = "save"
  /\ Unwrap(st_call.mem).source = "LLM"
  /\ LET k == [preset_id |-> st_call.preset_id, prompt |-> st_call.prompt]
     IN /\ k \in DOMAIN global_cache
        /\ global_cache[k].id # Unwrap(st_call.mem).id
        /\ KeyToJson(k) \in DOMAIN db.global_cache

\* C7: cache-key identity is exact.  find_cached_saying(prompt, preset_id)
\* never returns a saying with another prompt or another preset_id (None
\* included); it returns None for a pair under which nothing was recorded; and
\* when exactly one saying that is not LLM was recorded under the pair, that
\* saying is what it returns.
CacheKeyExact ==
  \A prompt \in Prompts, preset_id \in PresetRefs :
    LET same == {s \in Recorded : s.prompt = prompt /\ s.preset_id = preset_id}
        eligible == {s \in same : s.source # "LLM"}
    IN /\ \A r \in Found(prompt, preset_id) :
            r # None => (Unwrap(r).prompt = prompt /\ Unwrap(r).preset_id = preset_id)
       /\ same = {} => Found(prompt, preset_id) = {None}
       /\ Cardinality(eligible) = 1 =>
            Found(prompt, preset_id) = {Some(CHOOSE s \in eligible : TRUE)}

\* a Cache saying is recorded under ("P", oracle) and found there, and a
\* find_cached_saying call for ("P", no preset) returned None
CacheKeyExactWitness ==
  /\ st_call.op = "find"
  /\ st_call.prompt = "P" /\ st_call.preset_id = None
  /\ st_call.mem = None /\ st_call.sled = None
  /\ \E s \in Recorded :
       /\ s.source = "Cache" /\ s.prompt = "P" /\ s.preset_id = Some("oracle")
       /\ Found("P", Some("oracle")) = {Some(s)}
       /\ Found("Q", Some("oracle")) = {None}

\* ---------------------------------------------------- claims: create_saying

\* C4: cooldown is bounded by the window.  A create_saying request is answered
\* by the cooldown branch (the user's last saying or any cached one) only while
\* the window read at line 204 has not elapsed: once now > reset_at the request
\* goes on to check instead.
CooldownBoundedByWindow ==
  [][(req.pc \in {"last", "any"} /\ req'.pc = "done" /\ req'.status = "200")
       => ~(now > Unwrap(req.cool).reset_at)]_vars

\* the request in progress supplied neither prompt nor preset
DefaultRequest == req.prompt = None /\ req.preset = None

\* C10: persona consistency per window.  When check grants a request that
\* supplied neither prompt nor preset, and the previous such request granted
\* to the same user was counted in the same window (same reset_at), both
\* resolved to the same preset.
PersonaConsistency ==
  (/\ DefaultRequest
   /\ req.can_proceed = Some(TRUE)
   /\ req.prev # None
   /\ Unwrap(req.prev).reset_at = req.window)
  => Unwrap(req.prev).preset_id = req.preset_id

\* the user has a window with no request left: the cooldown test of line 207
InCooldown(u) == store[u] # None /\ Unwrap(store[u]).remaining_requests = U32(0)

\* the step receives a create_saying request
Received == admits' # admits /\ req'.handler = "create_saying"

\* what a request may not touch when it is answered from the past: the rate
\* limiter, the pins, the storage and the pin seen by check
Untouched == UNCHANGED <<rlVars, psVars, stVars, persona>>

\* C11: cooldown serves without side effects.  A request of a user whose
\* window has remaining_requests = 0 and whose history is non-empty goes to
\* get_last_saying and is answered 200 with that user's last saying; neither
\* step calls check, changes a window or a pin, calls the LLM, or saves.
CooldownServesWithoutEffects ==
  [][/\ (Received /\ InCooldown(req'.user) /\ MemGetLastSaying(req'.user) # None)
          => (req'.pc = "last" /\ Untouched)
     /\ (req.pc = "last" /\ req'.pc # "last" /\ MemGetLastSaying(req.user) # None)
          => /\ req'.pc = "done" /\ req'.status = "200" /\ req'.path = "last"
             /\ req'.saying = MemGetLastSaying(req.user)
             /\ req'.calls = <<"get_limit_info", "get_last_saying">>
             /\ Untouched]_vars

\* C12: every saying returned by the cooldown branch (the user's last saying
\* or one picked from get_any_cached_sayings) carries source "cache" in the
\* response, whatever source the stored saying has.
CooldownSourceCached ==
  (req.pc = "done" /\ req.path \in {"last", "any"})
    => Unwrap(req.response).source = "cache"

\* the request in progress has invoked the operation name
Invoked(name) == \E i \in DOMAIN req.calls : req.calls[i] = name

\* C13: cooldown with nothing to serve fails RateLimited.  A request that
\* entered the cooldown branch and got nothing from get_last_saying nor from
\* get_any_cached_sayings ends with RateLimited, whatever its prompt and
\* preset, and invokes neither the LLM nor save_saying.
CooldownNothingRateLimited ==
  (req.pc = "done" /\ Invoked("get_any_cached_sayings") /\ req.path # "any")
    => /\ req.status = "RateLimited"
       /\ ~Invoked("fetch_from_llm")
       /\ ~Invoked("save_saying")

\* the request in progress invoked the operation first before the operation then
Before(first, then) ==
  \E i, j \in DOMAIN req.calls :
    i < j /\ req.calls[i] = first /\ req.calls[j] = then

\* C14: late quota exhaustion.  Once check returned false the request has
\* ended with RateLimited and invoked none of find_cached_saying,
\* fetch_from_llm and save_saying; and a request that invoked fetch_from_llm
\* invoked check before, which returned true.
LateQuotaExhaustion ==
  /\ req.can_proceed = Some(FALSE)
       => /\ req.pc = "done" /\ req.status = "RateLimited"
          /\ ~Invoked("find_cached_saying")
          /\ ~Invoked("fetch_from_llm")
          /\ ~Invoked("save_saying")
  /\ Invoked("fetch_from_llm")
       => (req.can_proceed = Some(TRUE) /\ Before("check", "fetch_from_llm"))

\* check returned false to a request that went through the cooldown branch
\* with nothing to serve, and the request ended with RateLimited
LateQuotaExhaustionWitness ==
  /\ req.pc = "done" /\ req.can_proceed = Some(FALSE)
  /\ req.status = "RateLimited"
  /\ Invoked("check")

\* no preset of the catalog has this id
NotInCatalog(id) == \A i \in DOMAIN presets : presets[i].id # id

\* C15: an unknown preset is rejected before quota is touched.  A request
\* without prompt whose preset_id is not in the catalog, from a user who is
\* not in cooldown, goes straight to preset resolution and ends there with
\* BadRequest; neither step changes the user's window, a pin or the storage,
\* and the only operations invoked are get_limit_info and get_preset_by_id.
UnknownPresetRejected ==
  [][/\ (Received /\ ~InCooldown(req'.user))
          => (req'.pc = "resolve" /\ Untouched)
     /\ (/\ req.pc = "resolve" /\ req'.pc # "resolve"
         /\ ~IsRateLimited(req.cool, now)
         /\ req.prompt = None /\ req.preset # None
         /\ NotInCatalog(Unwrap(req.preset)))
          => /\ req'.pc = "done" /\ req'.status = "BadRequest"
             /\ req'.calls = <<"get_limit_info", "get_preset_by_id">>
             /\ Untouched]_vars


\* C16: upstream failure.  When fetch_from_llm fails, the request ends with
\* OpenRouterError and the step changes nothing in the storage: no user's
\* list and no global cache entry is added, on either backend.
UpstreamFailure ==
  [][(req.pc = "llm" /\ req'.pc # "llm" /\ req'.llm = Some(FALSE))
       => /\ req'.pc = "done" /\ req'.status = "OpenRouterError"
          /\ req'.response = None
          /\ ~(\E i \in DOMAIN req'.calls : req'.calls[i] = "save_saying")
          /\ UNCHANGED stVars]_vars

\* OpenRouter failed, the request ended with OpenRouterError, and the user's
\* window was consumed by it
UpstreamFailureWitness ==
  /\ req.pc = "done" /\ req.llm = Some(FALSE)
  /\ req.status = "OpenRouterError"
  /\ req.can_proceed = Some(TRUE)

\* C17: write-back is best-effort.  A request whose save_saying failed with a
\* storage error is still answered 201 with the saying it was about to save.
WriteBackBestEffort ==
  (req.pc = "done" /\ "save_saying" \in req.errors)
    => /\ req.status = "201"
       /\ req.saying # None
       /\ req.response = Some(SayingResponseFrom(Unwrap(req.saying)))

\* OpenRouter answered, save_saying failed on the durable backend and wrote
\* nothing, and the request was answered 201
WriteBackBestEffortWitness ==
  /\ req.pc = "done" /\ "save_saying" \in req.errors
  /\ req.llm = Some(TRUE) /\ req.status = "201"
  /\ SledGetLastSaying(db, req.user) # req.saying

\* C18: read-path storage errors count as nothing found.  A request whose
\* get_last_saying failed went on to get_any_cached_sayings; one whose
\* get_any_cached_sayings failed went on to the normal flow; one whose
\* find_cached_saying failed went on to call the LLM and did not fail with
\* the storage error.
ReadErrorsCountAsNothing ==
  req.pc = "done" =>
    /\ "get_last_saying" \in req.errors => Invoked("get_any_cached_sayings")
    /\ "get_any_cached_sayings" \in req.errors => req.path \notin {"last", "any"}
    /\ "find_cached_saying" \in req.errors
         => (Invoked("fetch_from_llm") /\ req.status # "InternalError")

\* ----------------------------------------------------- claims: Storage::new

\* the configurations the claim resolves to the in-memory backend: a kind
\* that is not implemented, or sled failing to open
Fallback(c) == c.type_ \in {"SQLite", "Redis"} \/ (c.type_ = "Sled" /\ ~c.open_ok)

\* C19: backend fallback.  Storage::new yields a backend for every
\* configuration; for SQLite, Redis and a sled that fails to open the backend
\* is MemoryStorage, starting empty, and from then on every operation
\* succeeds, returns what MemoryStorage returns, and leaves sled untouched.
BackendFallback ==
  /\ storage.inner \in {"Memory", "Sled"}
  /\ Fallback(storage) =>
       /\ storage.inner = "Memory"
       /\ db = [tree |-> EmptyMap, global_cache |-> EmptyMap]
       /\ log = <<>> => (sayings = EmptyMap /\ global_cache = EmptyMap)
       /\ st_call.op # "-" => IsOk(st_call.ret)
       /\ st_call.op = "save" => MemGetLastSaying(st_call.user) = Some(Val(st_call.ret))
       /\ st_call.op = "last" => Val(st_call.ret) = MemGetLastSaying(st_call.user)
       /\ st_call.op = "history"
            => Val(st_call.ret) = MemGetSayings(st_call.user, st_call.limit)
       /\ st_call.op = "find"
            => Val(st_call.ret) \in MemFindCachedSaying(st_call.prompt, st_call.preset_id)
       /\ st_call.op = "any"
            => Val(st_call.ret) \in MemGetAnyCachedSayings(st_call.limit)

\* sled failed to open, a saying was saved and get_last_saying returned it
BackendFallbackWitness ==
  /\ storage.type_ = "Sled" /\ ~storage.open_ok
  /\ st_call.op = "last"
  /\ IsOk(st_call.ret) /\ Val(st_call.ret) # None

\* ------------------------------------------------- claims: the two backends

\* C20: backend equivalence.  After the same save_saying calls, every
\* get_last_saying, get_sayings, find_cached_saying and
\* get_any_cached_sayings call returns on SledStorage what it returns on
\* MemoryStorage; where MemoryStorage's answer depends on the order in which
\* it scans the users, sled's answer is one of those answers.
BackendEquivalence ==
  /\ st_call.op \in {"save", "last", "history"} => st_call.sled = st_call.mem
  /\ st_call.op = "find"
       => st_call.sled \in MemFindCachedSaying(st_call.prompt, st_call.preset_id)
  /\ st_call.op = "any"
       => st_call.sled \in MemGetAnyCachedSayings(st_call.limit)

\* ------------------------------------------------ claims: the user's history

\* list is the first Len(list) entries of full
IsPrefix(list, full) == Len(list) <= Len(full) /\ list = SubSeq(full, 1, Len(list))

\* created_at never rises along list
NewestFirst(list) ==
  \A i, j \in DOMAIN list : i < j => list[i].created_at >= list[j].created_at

\* created_at falls from each entry to the next
StrictlyNewestFirst(list) ==
  \A i, j \in DOMAIN list : i < j => list[i].created_at > list[j].created_at

\* the user's whole history on each backend
FullHistory(u) == IF u \in DOMAIN sayings THEN sayings[u] ELSE <<>>
SledFullHistory(u) == SledAllSayings(db, u)

\* C21 as stated: get_sayings(user_id, limit) returns at most limit entries,
\* they are the first entries of the user's full history, and created_at
\* falls strictly from each entry to the next.
HistoryStrictlyOrdered ==
  st_call.op = "history" =>
    /\ Len(st_call.mem) <= st_call.limit /\ Len(st_call.sled) <= st_call.limit
    /\ IsPrefix(st_call.mem, FullHistory(st_call.user))
    /\ IsPrefix(st_call.sled, SledFullHistory(st_call.user))
    /\ StrictlyNewestFirst(st_call.mem) /\ StrictlyNewestFirst(st_call.sled)

\* C21 amended: get_sayings(user_id, limit) returns at most limit entries,
\* they are the first entries of the user's full history, and created_at
\* never rises from one entry to the next; the whole entries when the history
\* has no more than limit.
HistoryOrderedAndBounded ==
  st_call.op = "history" =>
    /\ Len(st_call.mem) = Min(st_call.limit, Len(FullHistory(st_call.user)))
    /\ Len(st_call.sled) = Min(st_call.limit, Len(SledFullHistory(st_call.user)))
    /\ IsPrefix(st_call.mem, FullHistory(st_call.user))
    /\ IsPrefix(st_call.sled, SledFullHistory(st_call.user))
    /\ NewestFirst(st_call.mem) /\ NewestFirst(st_call.sled)
    /\ NewestFirst(FullHistory(st_call.user))

\* a history of two sayings saved oldest last is read with limit 1 and the
\* newer one comes back
HistoryOrderedAndBoundedWitness ==
  /\ st_call.op = "history" /\ st_call.limit = 1
  /\ Len(FullHistory(st_call.user)) = 2
  /\ log[1][1] = st_call.user /\ log[2][1] = st_call.user
  /\ log[1][2].created_at > log[2][2].created_at
  /\ st_call.mem = <<log[1][2]>> /\ st_call.sled = <<log[1][2]>>

\* the users for whom something was saved
RecordedUsers == {log[i][1] : i \in 1..Len(log)}

\* C22: get_last_saying(user_id) right after save_saying(user_id, r) returns
\* r, whatever created_at r has, and get_last_saying returns None exactly for
\* a user for whom nothing was saved.
LastIsLastRecorded ==
  [][st_call'.op = "last" =>
       /\ (st_call'.mem = None) = (st_call'.user \notin RecordedUsers)
       /\ (st_call'.sled = None) = (st_call'.user \notin RecordedUsers)
       /\ (st_call.op = "save" /\ st_call.user = st_call'.user)
            => (st_call'.mem = st_call.mem /\ st_call'.sled = st_call.sled)]_vars

\* --------------------------------------- claims: get_any_cached_sayings

\* C23: get_any_cached_sayings(limit) returns at most limit sayings, newest
\* first, and for limit >= 1 it returns the empty list only when nothing was
\* ever saved, on either backend.
AnyCachedBoundedSortedNonEmpty ==
  st_call.op = "any" =>
    \A r \in {st_call.mem, st_call.sled} :
      /\ Len(r) <= st_call.limit
      /\ NewestFirst(r)
      /\ (st_call.limit >= 1 /\ r = <<>>) => log = <<>>

\* the sayings of a list
Elements(list) == {list[i] : i \in DOMAIN list}

\* the candidates that are not LLM: every entry of the global cache, and every
\* saying of a history that is not LLM and whose key the global cache lacks
NonLlmCandidates ==
  {global_cache[k] : k \in DOMAIN global_cache}
    \cup {s \in UNION {Elements(sayings[u]) : u \in DOMAIN sayings} :
            ~IsLLM(s) /\ CacheKeyFromSaying(s) \notin DOMAIN global_cache}

\* C24: LLM sayings are a last resort.  When the list returned by
\* MemoryStorage::get_any_cached_sayings(limit) holds an LLM saying, it holds
\* every candidate that is not LLM: an LLM saying never takes the place of one
\* that is not, even when it is newer.
LlmLastResort ==
  st_call.op = "any" =>
    ((\E s \in Elements(st_call.mem) : IsLLM(s))
       => NonLlmCandidates \subseteq Elements(st_call.mem))

\* no two positions of list hold sayings with the same (preset_id, prompt)
DistinctKeys(list) ==
  \A i, j \in DOMAIN list :
    i # j => CacheKeyFromSaying(list[i]) # CacheKeyFromSaying(list[j])

\* C25: get_any_cached_sayings deduplicates by cache key.  No two entries of
\* the list it returns have the same (preset_id, prompt), so no saved saying
\* appears twice, on either backend.
AnyCachedDeduplicated ==
  st_call.op = "any" => (DistinctKeys(st_call.mem) /\ DistinctKeys(st_call.sled))

\* ------------------------------------------- claims: RateLimiter operations

\* thread t returns from check in this step
CheckReturns(t) == pc[t] = "decide" /\ pc'[t] = "done"

\* the window of u has not elapsed at the instant t
Live(u, t) == store[u] # None /\ ~(t > Unwrap(store[u]).reset_at)

\* C26: an exhausted check mutates nothing.  A check on a user whose live
\* window has remaining_requests = 0 returns false and leaves every window as
\* it was; a check on a live window with remaining_requests > 0 returns true,
\* takes exactly 1 from remaining_requests, keeps reset_at and leaves the
\* other users' windows as they were.
ExhaustedCheckMutatesNothing ==
  [][\A t \in Threads :
       /\ (CheckReturns(t) /\ Live(frame[t].user, frame[t].now)) =>
            LET u == frame[t].user
                w == Unwrap(store[u])
            IN IF w.remaining_requests = U32(0)
                 THEN frame'[t].ret = Some(FALSE) /\ store' = store
                 ELSE /\ frame'[t].ret = Some(TRUE)
                      /\ store' = [store EXCEPT ![u] =
                           Some(RateLimitInfo(u, WrappingSub(w.remaining_requests, 1),
                                              w.reset_at))]
       /\ \A u \in Users :
            (Live(u, now) /\ Unwrap(store[u]).remaining_requests = U32(0))
              => ~Aborts(t, "check", u)]_vars

\* thread t returns from reset in this step
ResetReturns(t) ==
  pc[t] = "locked" /\ frame[t].op = "reset" /\ pc'[t] = "done"

\* the window of u holds the full quota, which only reset installs: a check
\* that installs a window charges it at once
FreshlyReset(u) ==
  store[u] # None /\ Unwrap(store[u]).remaining_requests = U32(config.max_requests)

\* C27: reset installs a full window and charges nothing.  Whatever the user's
\* window was (none, live with any remaining_requests, elapsed), reset leaves
\* remaining_requests = max_requests and reset_at = now + window_seconds and
\* touches no other user; the check that finds the window as reset left it
\* returns true and leaves remaining_requests = max_requests - 1.
ResetInstallsFullWindow ==
  [][\A t \in Threads :
       LET u == frame[t].user
       IN /\ ResetReturns(t) =>
               /\ NowPlusWindow(frame[t].now) # None
               /\ store' = [store EXCEPT ![u] =
                    Some([user_id |-> u,
                          remaining_requests |-> U32(config.max_requests),
                          reset_at |-> Unwrap(NowPlusWindow(frame[t].now))])]
          /\ (CheckReturns(t) /\ FreshlyReset(u)) =>
               /\ frame'[t].ret = Some(TRUE)
               /\ config.max_requests >= 1
               /\ Unwrap(store'[u]).remaining_requests = U32(config.max_requests - 1)
          /\ \A v \in Users : ~Aborts(t, "reset", v)]_vars

\* thread t returns from get_limit_info in this step
GetLimitInfoReturns(t) ==
  pc[t] = "locked" /\ frame[t].op = "get_limit_info" /\ pc'[t] = "done"

\* C28: get_limit_info is read-only.  It returns the stored window of the user,
\* or None when there is none, and leaves every window as it was, also when
\* the stored window's reset_at has already passed.
GetLimitInfoReadOnly ==
  [][\A t \in Threads :
       /\ GetLimitInfoReturns(t) =>
            /\ frame'[t].ret = store[frame[t].user]
            /\ store' = store
       /\ \A u \in Users : ~Aborts(t, "get_limit_info", u)]_vars

\* ------------------------------------------- claims: the global cache

\* the positions in the log of the sayings saved under key that are not LLM
CachedAt(key) ==
  {i \in 1..Len(log) : ~IsLLM(log[i][2]) /\ CacheKeyFromSaying(log[i][2]) = key}

\* the last of them
LastCached(key) ==
  log[CHOOSE i \in CachedAt(key) : \A j \in CachedAt(key) : j <= i][2]

\* C29: the global cache is last-write-wins per key.  Once sayings that are
\* not LLM were saved under a (preset_id, prompt) pair, by whichever users,
\* find_cached_saying on that pair returns the one saved last, on both
\* backends, and each global cache holds exactly one entry whose saying has
\* that pair.
CacheLastWriteWins ==
  \A prompt \in Prompts, preset_id \in PresetRefs :
    LET key == CacheKey(preset_id, prompt)
    IN CachedAt(key) # {} =>
         /\ MemFindCachedSaying(prompt, preset_id) = {Some(LastCached(key))}
         /\ SledFindCachedSaying(db, prompt, preset_id) = Some(LastCached(key))
         /\ Cardinality({k \in DOMAIN global_cache :
                           CacheKeyFromSaying(global_cache[k]) = key}) = 1
         /\ Cardinality({k \in DOMAIN db.global_cache :
              CacheKeyFromSaying(SayingFromJson(db.global_cache[k])) = key}) = 1

\* two different Cache sayings were saved under one pair by two users, and
\* find_cached_saying on the pair has returned the second on both backends
CacheLastWriteWinsWitness ==
  /\ Len(log) = 2
  /\ log[1][1] # log[2][1]
  /\ log[1][2] # log[2][2]
  /\ ~IsLLM(log[1][2]) /\ ~IsLLM(log[2][2])
  /\ CacheKeyFromSaying(log[1][2]) = CacheKeyFromSaying(log[2][2])
  /\ st_call.op = "find"
  /\ CacheKey(st_call.preset_id, st_call.prompt) = CacheKeyFromSaying(log[2][2])
  /\ st_call.mem = Some(log[2][2])
  /\ st_call.sled = Some(log[2][2])

\* ------------------------------------ claims: MemoryStorage under concurrency

\* the Mutex thread t is about to lock inside its call, if any
WaitsFor(t) ==
  CASE mem_call[t].pc = "save_cache" -> Some("global_cache")
    [] mem_call[t].pc \in {"find_scan", "any_scan"} -> Some("sayings")
    [] OTHER -> None

\* thread t cannot go on before a thread of S lets go of a Mutex
BlockedBy(t, S) ==
  /\ WaitsFor(t) # None
  /\ mem_locks[Unwrap(WaitsFor(t))] # None
  /\ Unwrap(mem_locks[Unwrap(WaitsFor(t))]) \in S

\* C30: MemoryStorage is deadlock-free.  Under every interleaving of
\* concurrent save_saying, find_cached_saying and get_any_cached_sayings calls
\* there is no set of threads each of which waits for a Mutex that another
\* thread of the set holds, so every call can still get its locks and return.
MemoryDeadlockFree ==
  \A S \in (SUBSET Threads) \ {{}} : ~(\A t \in S : BlockedBy(t, S))

\* ------------------------------------ claims: create_saying, generation

\* how often the request r has invoked the operation name
Invocations(r, name) == Cardinality({i \in 1..Len(r.calls) : r.calls[i] = name})

\* C31: the successful generation path.  When check returned true and
\* find_cached_saying found nothing, the request goes to fetch_from_llm, which
\* it invokes once; on success the saying has source LLM, the resolved prompt
\* and the resolved preset_id (None for a request with its own prompt); the
\* save that succeeds adds it to the user's history, leaves the global cache
\* as it was, and the request returns it with 201.
GenerationPath ==
  [][/\ (req.pc = "find" /\ req'.pc # "find"
           /\ StorageFindCachedSaying(req.user_prompt, req.preset_id) = {Ok(None)})
          => (req.can_proceed = Some(TRUE) /\ req'.pc = "llm")
     /\ (req.pc = "llm" /\ req'.pc # "llm")
          => /\ Invocations(req, "fetch_from_llm") = 0
             /\ Invocations(req', "fetch_from_llm") = 1
             /\ req'.llm = Some(TRUE) =>
                  /\ req'.pc = "save"
                  /\ req'.saying # None
                  /\ Unwrap(req'.saying).source = "LLM"
                  /\ Unwrap(req'.saying).prompt = req.user_prompt
                  /\ Unwrap(req'.saying).preset_id = req.preset_id
                  /\ req.prompt # None => Unwrap(req'.saying).preset_id = None
     /\ (req.pc = "save" /\ req'.pc # "save" /\ req.path = "llm"
           /\ "save_saying" \notin req'.errors)
          => LET u == req.user
                 s == Unwrap(req.saying)
             IN /\ Invocations(req', "fetch_from_llm") = 1
                /\ Len(FullHistory(u)') = Len(FullHistory(u)) + 1
                /\ \E i \in DOMAIN FullHistory(u)' : FullHistory(u)'[i] = s
                /\ global_cache' = global_cache
                /\ req'.status = "201"
                /\ req'.response = Some(SayingResponseFrom(s))]_vars

\* a request with its own prompt and one that names a preset have both been
\* generated for and saved, and the global cache holds nothing
GenerationPathWitness ==
  /\ req.pc = "done" /\ req.path = "llm" /\ req.status = "201"
  /\ req.preset_id # None
  /\ Invocations(req, "find_cached_saying") = 1
  /\ \E i \in DOMAIN FullHistory(req.user) : FullHistory(req.user)[i] = Unwrap(req.saying)
  /\ \E u \in Users : \E i \in DOMAIN FullHistory(u) : FullHistory(u)[i].preset_id = None
  /\ global_cache = EmptyMap

\* ------------------------------------ claims: create_saying, first request

\* C32: the first request with neither prompt nor preset.  When a request
\* that called reset (its user had no window) has passed check and completed,
\* the user's window holds remaining_requests = max_requests - 1 and the
\* user's pin expires at that window's reset_at.
FirstRequestPinned ==
  (req.pc = "done" /\ req.prompt = None /\ req.preset = None
     /\ config.max_requests >= 1
     /\ Invoked("reset") /\ Invoked("check")) =>
    LET u == req.user
    IN /\ Before("reset", "check")
       /\ store[u] # None
       /\ Unwrap(store[u]).remaining_requests = U32(config.max_requests - 1)
       /\ selections[u] # None
       /\ Unwrap(selections[u]).expires_at = Unwrap(store[u]).reset_at

\* ------------------------------------ claims: concurrent create_saying

\* the checks that returned true to u and were charged to the window that
\* ends at reset_at
GrantedIn(u, reset_at) ==
  {i \in DOMAIN granted : granted[i].user = u /\ granted[i].reset_at = reset_at}

\* C33: the quota holds under concurrent requests.  Under every interleaving
\* of concurrent create_saying requests of one user, the checks that returned
\* true inside one window are at most max_requests: the reset of a first
\* request never gives back what a concurrent request has already taken.
QuotaHoldsConcurrently ==
  \A u \in Users, r \in -1..(MaxTime + MaxWindow) :
    Cardinality(GrantedIn(u, r)) <= config.max_requests

\* ------------------------------------ claims: concurrent save_saying

\* C34: no saying is lost under concurrent saves.  Under every interleaving
\* of save_saying calls of two threads for one user, every saying whose save
\* has returned Ok is in the user's history, on MemoryStorage and on
\* SledStorage: two saves make the history two longer.
NoLostHistory ==
  /\ \A i \in DOMAIN log : log[i][2] \in Elements(FullHistory(log[i][1]))
  /\ \A t \in Threads : \A i \in DOMAIN sled_call[t].saved :
       sled_call[t].saved[i][2] \in Elements(SledFullHistory(sled_call[t].saved[i][1]))

\* ------------------------------------ claims: the RateLimiter's counter

\* C35: counter bounds.  For every max_requests >= 0 each window holds
\* 0 <= remaining_requests <= max_requests; with max_requests = 0 no check
\* returns true; and max_requests - 1 neither wraps nor aborts the call.
CounterBounds ==
  /\ \A u \in Users :
       store[u] # None =>
         (U32AtMost(U32(0), Unwrap(store[u]).remaining_requests)
            /\ U32AtMost(Unwrap(store[u]).remaining_requests, U32(config.max_requests)))
  /\ config.max_requests = 0 =>
       \A t \in Threads :
         ~(pc[t] = "done" /\ frame[t].op = "check" /\ frame[t].ret = Some(TRUE))
  /\ \A t \in Threads : pc[t] # "panicked"

\* ------------------------------------ claims: create_saying and the cache

\* C36: the global cache never populates through create_saying.  From an
\* empty store, with only create_saying requests, every saved saying has
\* source LLM, the global cache stays empty, the find_cached_saying of a
\* request finds nothing, and no request takes the branch that serves a
\* cached saying.
CacheNeverPopulates ==
  /\ \A i \in DOMAIN log : log[i][2].source = "LLM"
  /\ \A u \in DOMAIN sayings : \A i \in DOMAIN sayings[u] : sayings[u][i].source = "LLM"
  /\ global_cache = EmptyMap
  /\ req.pc = "find" =>
       \A r \in StorageFindCachedSaying(req.user_prompt, req.preset_id) :
         IsOk(r) => Val(r) = None
  /\ req.path # "cache"

\* a saying was saved under a key, and a later request of the other user is
\* about to look that key up
CacheNeverPopulatesWitness ==
  /\ Len(log) = 1
  /\ req.pc = "find"
  /\ req.user # log[1][1]
  /\ req.user_prompt = log[1][2].prompt
  /\ req.preset_id = log[1][2].preset_id
  /\ global_cache = EmptyMap

\* ------------------------------------ claims: create_saying, the cooldown branch

\* the saying s was saved for a user other than u
SavedForAnother(u, s) == \E i \in DOMAIN log : log[i][1] # u /\ log[i][2] = s

\* C37: no cross-user leak of fresh generations.  A saying served to a user
\* by the cooldown branch is an entry of that user's own history or a saying
\* whose source is not LLM; an LLM saying saved for another user is never
\* served.
NoCrossUserLeak ==
  (req.pc = "done" /\ req.path \in {"last", "any"}) =>
    LET s == Unwrap(req.saying)
    IN /\ (s \in Elements(FullHistory(req.user)) \/ s.source # "LLM")
       /\ ~(s.source = "LLM" /\ SavedForAnother(req.user, s))

\* ------------------------------------ claims: create_saying, the charge

\* what remaining_requests of u is after a check at the instant t that
\* returned true
ChargedRemaining(u, t) ==
  IF Live(u, t) THEN WrappingSub(Unwrap(store[u]).remaining_requests, 1)
  ELSE WrappingSub(U32(config.max_requests), 1)

\* C38: quota is charged before the outcome is known.  The check that returns
\* true to a request takes one from the user's window (or opens a window
\* with max_requests - 1), and no later step of the request changes any
\* window: not the failure of the LLM, not the reuse of a cached saying, not
\* the save.
ChargedBeforeOutcome ==
  [][/\ (req.pc = "check" /\ req'.can_proceed = Some(TRUE))
          => /\ store'[req.user] # None
             /\ Unwrap(store'[req.user]).remaining_requests = ChargedRemaining(req.user, now)
     /\ req.can_proceed = Some(TRUE) => store' = store]_vars

\* one user's request was charged and the LLM failed; the other's was charged
\* and served the cached saying; both windows are still down by one
ChargedBeforeOutcomeWitness ==
  /\ req.pc = "done" /\ req.path = "cache" /\ req.status = "201"
  /\ req.can_proceed = Some(TRUE)
  /\ config.max_requests >= 1
  /\ Unwrap(store[req.user]).remaining_requests = U32(config.max_requests - 1)
  /\ \E u \in Users \ {req.user} :
       /\ store[u] # None
       /\ Unwrap(store[u]).remaining_requests = U32(config.max_requests - 1)
       /\ FullHistory(u) = <<>>

\* ------------------------------------ claims: MemoryStorage, the fallback scan

\* the sayings of the histories that the fallback scan accepts for a key
ScanMatches(prompt, preset_id) ==
  {s \in UNION {Elements(sayings[u]) : u \in DOMAIN sayings} :
     s.prompt = prompt /\ s.preset_id = preset_id /\ s.source # "LLM"}

\* C39: the fallback scan is redundant on MemoryStorage.  After any sequence
\* of save_saying calls every saying of a history whose source is not LLM has
\* a global-cache entry under its (preset_id, prompt) key; so for a key the
\* global cache lacks the scan finds nothing, and whatever find_cached_saying
\* returns is the global cache's entry.
FallbackScanRedundant ==
  /\ \A u \in DOMAIN sayings : \A i \in DOMAIN sayings[u] :
       sayings[u][i].source # "LLM" => CacheKeyFromSaying(sayings[u][i]) \in DOMAIN global_cache
  /\ \A prompt \in Prompts, preset_id \in PresetRefs :
       LET key == CacheKey(preset_id, prompt)
       IN /\ key \notin DOMAIN global_cache
               => (ScanMatches(prompt, preset_id) = {}
                     /\ MemFindCachedSaying(prompt, preset_id) = {None})
          /\ key \in DOMAIN global_cache
               => MemFindCachedSaying(prompt, preset_id) = {Some(global_cache[key])}
  /\ (st_call.op = "find" /\ st_call.mem # None)
       => /\ CacheKey(st_call.preset_id, st_call.prompt) \in DOMAIN global_cache
          /\ st_call.mem = Some(global_cache[CacheKey(st_call.preset_id, st_call.prompt)])

\* a find returned the global cache's entry while a history holds another
\* saying the scan would have accepted for that key
FallbackScanRedundantWitness ==
  /\ st_call.op = "find" /\ st_call.mem # None
  /\ \E s \in ScanMatches(st_call.prompt, st_call.preset_id) : s # Unwrap(st_call.mem)

====
